---------------------------- MODULE Spec2Model ----------------------------
(***************************************************************************)
(* A model of grpc-web-cli's request-file interpreter: the document parser *)
(* (internal/file/parser.go), the response-path evaluator                  *)
(* (internal/client/jsonpath.go), the template substitutor                 *)
(* (internal/template/template.go), the assertion evaluator                *)
(* (internal/assert/assert.go) and the run loop (cmd/run.go).              *)
(*                                                                         *)
(* A Go string is a sequence of one-character strings, so that the string  *)
(* functions the code calls (TrimSpace, Index, ReplaceAll, ...) are        *)
(* computed, character by character, as the library computes them.         *)
(* Positions are 1-based; a search that fails returns 0 where Go           *)
(* returns -1.                                                             *)
(***************************************************************************)
EXTENDS Integers, Sequences, FiniteSets, TLC

(***************************************************************************)
(* Go's strings package, as the code uses it.                              *)
(***************************************************************************)

\* The white space strings.TrimSpace and strings.Fields cut.
WhiteSpace == {" ", "\t"}

MinOf(S) == CHOOSE i \in S : \A j \in S : i <= j

MaxOf(S) == CHOOSE i \in S : \A j \in S : j <= i

\* s[from..]: the Go slice s[from-1:].
Drop(s, from) == SubSeq(s, from, Len(s))

HasPrefix(s, p) == Len(s) >= Len(p) /\ SubSeq(s, 1, Len(p)) = p

HasSuffix(s, p) == Len(s) >= Len(p) /\ Drop(s, Len(s) - Len(p) + 1) = p

TrimPrefix(s, p) == IF HasPrefix(s, p) THEN Drop(s, Len(p) + 1) ELSE s

TrimSuffix(s, p) == IF HasSuffix(s, p) THEN SubSeq(s, 1, Len(s) - Len(p)) ELSE s

\* strings.Index: where sub first occurs in s, 0 when it does not.
Index(s, sub) ==
    LET P == {i \in 1..(Len(s) - Len(sub) + 1) : SubSeq(s, i, i + Len(sub) - 1) = sub}
    IN  IF P = {} THEN 0 ELSE MinOf(P)

Contains(s, sub) == Index(s, sub) # 0

TrimSpace(s) ==
    LET N == {i \in 1..Len(s) : s[i] \notin WhiteSpace}
    IN  IF N = {} THEN <<>> ELSE SubSeq(s, MinOf(N), MaxOf(N))

\* strings.Replace with n = 1 in the place of strings.ReplaceAll: only the
\* first occurrence of old is replaced.
ReplaceFirst(s, old, new) ==
    LET i == Index(s, old)
    IN  IF i = 0 THEN s ELSE SubSeq(s, 1, i - 1) \o new \o Drop(s, i + Len(old))

\* strings.ReplaceAll for a non-empty old: left to right, without overlap,
\* and without looking again at the text it has put in.
RECURSIVE ReplaceAll(_, _, _)
ReplaceAll(s, old, new) ==
    LET i == Index(s, old)
    IN  IF i = 0
        THEN s
        ELSE SubSeq(s, 1, i - 1) \o new \o ReplaceAll(Drop(s, i + Len(old)), old, new)

\* strings.SplitN(s, sep, 2): one part when sep does not occur, else two.
SplitN2(s, sep) ==
    LET i == Index(s, sep)
    IN  IF i = 0 THEN <<s>> ELSE <<SubSeq(s, 1, i - 1), Drop(s, i + Len(sep))>>

\* strings.Fields: the maximal runs of characters that are not white space.
RECURSIVE Fields(_)
Fields(s) ==
    LET N == {i \in 1..Len(s) : s[i] \notin WhiteSpace}
    IN  IF N = {}
        THEN <<>>
        ELSE LET b == MinOf(N)
                 W == {i \in b..Len(s) : s[i] \in WhiteSpace}
                 e == IF W = {} THEN Len(s) + 1 ELSE MinOf(W)
             IN  <<SubSeq(s, b, e - 1)>> \o Fields(Drop(s, e))

\* strings.Join(lines, "\n").
RECURSIVE JoinLines(_)
JoinLines(lines) ==
    IF Len(lines) = 0 THEN <<>>
    ELSE IF Len(lines) = 1 THEN lines[1]
    ELSE lines[1] \o <<"\n">> \o JoinLines(Tail(lines))

UpperLetters == <<"A", "B", "C", "D", "E", "F", "G", "H", "I", "J", "K", "L", "M",
                  "N", "O", "P", "Q", "R", "S", "T", "U", "V", "W", "X", "Y", "Z">>

LowerLetters == <<"a", "b", "c", "d", "e", "f", "g", "h", "i", "j", "k", "l", "m",
                  "n", "o", "p", "q", "r", "s", "t", "u", "v", "w", "x", "y", "z">>

\* strings.ToLower on ASCII text.
ToLower(s) ==
    [i \in DOMAIN s |->
        IF \E k \in DOMAIN UpperLetters : UpperLetters[k] = s[i]
        THEN LowerLetters[CHOOSE k \in DOMAIN UpperLetters : UpperLetters[k] = s[i]]
        ELSE s[i]]

Digits == <<"0", "1", "2", "3", "4", "5", "6", "7", "8", "9">>

IsDigit(c) == \E k \in DOMAIN Digits : Digits[k] = c

DigitVal(c) == (CHOOSE k \in DOMAIN Digits : Digits[k] = c) - 1

RECURSIVE DigitsVal(_)
DigitsVal(s) == IF s = <<>> THEN 0 ELSE 10 * DigitsVal(SubSeq(s, 1, Len(s) - 1)) + DigitVal(s[Len(s)])

\* strconv.Atoi: an optional sign and at least one decimal digit.
Atoi(s) ==
    LET body == IF Len(s) > 0 /\ s[1] \in {"+", "-"} THEN Tail(s) ELSE s
    IN  IF body = <<>> \/ \E i \in DOMAIN body : ~IsDigit(body[i])
        THEN [ok |-> FALSE, val |-> 0]
        ELSE [ok |-> TRUE,
              val |-> IF s[1] = "-" THEN 0 - DigitsVal(body) ELSE DigitsVal(body)]

\* The decimal digits of a natural number.
RECURSIVE Itoa(_)
Itoa(n) == IF n < 10 THEN <<Digits[n + 1]>> ELSE Itoa(n \div 10) \o <<Digits[(n % 10) + 1]>>

(***************************************************************************)
(* JSON values, as encoding/json decodes them into interface{}: a node is  *)
(* [t, v] with t the Go type the decoder produces.  The text of a response *)
(* is taken by its syntax tree; a text that is not JSON is the node        *)
(* "invalid", on which json.Unmarshal fails.                               *)
(***************************************************************************)

JStr(s) == [t |-> "str", v |-> s]

JNum(n) == [t |-> "num", v |-> n]

JBool(b) == [t |-> "bool", v |-> b]

JNull == [t |-> "null", v |-> 0]

JArr(elems) == [t |-> "arr", v |-> elems]

JObj(fields) == [t |-> "obj", v |-> fields]

JInvalid == [t |-> "invalid", v |-> 0]

\* The printable ASCII characters in code order, from the space (32) on,
\* without the backquote (96), which no text of the model holds.
Ascii == <<" ", "!", "\"", "#", "$", "%", "&", "'", "(", ")", "*", "+", ",", "-", ".", "/",
           "0", "1", "2", "3", "4", "5", "6", "7", "8", "9", ":", ";", "<", "=", ">", "?",
           "@", "A", "B", "C", "D", "E", "F", "G", "H", "I", "J", "K", "L", "M", "N", "O",
           "P", "Q", "R", "S", "T", "U", "V", "W", "X", "Y", "Z", "[", "\\", "]", "^", "_",
           "a", "b", "c", "d", "e", "f", "g", "h", "i", "j", "k", "l", "m", "n", "o",
           "p", "q", "r", "s", "t", "u", "v", "w", "x", "y", "z", "{", "|", "}", "~">>

CharCode(c) == CHOOSE k \in DOMAIN Ascii : Ascii[k] = c

\* Go's order of strings: byte by byte, a proper prefix first.
RECURSIVE StrLess(_, _)
StrLess(a, b) ==
    IF b = <<>> THEN FALSE
    ELSE IF a = <<>> THEN TRUE
    ELSE IF a[1] # b[1] THEN CharCode(a[1]) < CharCode(b[1])
    ELSE StrLess(Tail(a), Tail(b))

\* The keys of a map in the order fmt prints them.
RECURSIVE SortedKeys(_)
SortedKeys(K) ==
    IF K = {} THEN <<>>
    ELSE LET k == CHOOSE x \in K : \A y \in K \ {x} : StrLess(x, y)
         IN  <<k>> \o SortedKeys(K \ {k})

\* strconv's shortest %g, given the decimal digits d of a natural number:
\* the digits themselves below 1e6, else d.ddde+XX without trailing zeros.
formatDigits(d) ==
    LET nz == {k \in 1..Len(d) : d[k] # "0"}
        m == IF nz = {} THEN <<"0">> ELSE SubSeq(d, 1, MaxOf(nz))
    IN  IF Len(d) - 1 < 6
        THEN d
        ELSE <<m[1]>> \o (IF Len(m) > 1 THEN <<".">> \o Tail(m) ELSE <<>>)
             \o <<"e", "+">> \o (IF Len(d) - 1 < 10 THEN <<"0">> ELSE <<>>) \o Itoa(Len(d) - 1)

\* fmt's %v of a float64 that holds a natural number.
FormatFloat(n) == formatDigits(Itoa(n))

RECURSIVE JoinWith(_, _)
JoinWith(parts, sep) ==
    IF Len(parts) = 0 THEN <<>>
    ELSE IF Len(parts) = 1 THEN parts[1]
    ELSE parts[1] \o sep \o JoinWith(Tail(parts), sep)

\* fmt.Sprintf("%v", x) of a decoded JSON value.
RECURSIVE Sprint(_)
Sprint(x) ==
    CASE x.t = "str" -> x.v
      [] x.t = "num" -> FormatFloat(x.v)
      [] x.t = "bool" -> IF x.v THEN <<"t", "r", "u", "e">> ELSE <<"f", "a", "l", "s", "e">>
      [] x.t = "null" -> <<"<", "n", "i", "l", ">">>
      [] x.t = "arr" ->
            <<"[">> \o JoinWith([i \in DOMAIN x.v |-> Sprint(x.v[i])], <<" ">>) \o <<"]">>
      [] x.t = "obj" ->
            LET ks == SortedKeys(DOMAIN x.v)
            IN  <<"m", "a", "p", "[">>
                \o JoinWith([i \in DOMAIN ks |-> ks[i] \o <<":">> \o Sprint(x.v[ks[i]])], <<" ">>)
                \o <<"]">>

\* fmt's %T of a decoded JSON value.
TypeName(x) ==
    CASE x.t = "str" -> <<"s", "t", "r", "i", "n", "g">>
      [] x.t = "num" -> <<"f", "l", "o", "a", "t", "6", "4">>
      [] x.t = "bool" -> <<"b", "o", "o", "l">>
      [] x.t = "null" -> <<"<", "n", "i", "l", ">">>
      [] x.t = "arr" -> <<"[", "]", "i", "n", "t", "e", "r", "f", "a", "c", "e", " ", "{", "}">>
      [] x.t = "obj" -> <<"m", "a", "p", "[", "s", "t", "r", "i", "n", "g", "]",
                          "i", "n", "t", "e", "r", "f", "a", "c", "e", " ", "{", "}">>

(***************************************************************************)
(* internal/client/jsonpath.go.  A result is [ok, val, err]: the value     *)
(* reached, or the text of the error.                                      *)
(***************************************************************************)

PathOk(val) == [ok |-> TRUE, val |-> val, err |-> <<>>]

PathErr(text) == [ok |-> FALSE, val |-> JNull, err |-> text]

\* The optional root selector evaluatePath strips on entry.
StripRoot(path) ==
    IF HasPrefix(path, <<"$", ".">>) THEN TrimPrefix(path, <<"$", ".">>)
    ELSE IF HasPrefix(path, <<"$">>) THEN TrimPrefix(path, <<"$">>)
    ELSE path

ErrNotObject(key, data) ==
    PathErr(<<"e", "x", "p", "e", "c", "t", "e", "d", " ", "o", "b", "j", "e", "c", "t", " ",
              "f", "o", "r", " ", "k", "e", "y", " ", "'">> \o key
            \o <<"'", " ", "b", "u", "t", " ", "g", "o", "t", " ">> \o TypeName(data))

ErrKeyNotFound(key) ==
    PathErr(<<"k", "e", "y", " ", "'">> \o key
            \o <<"'", " ", "n", "o", "t", " ", "f", "o", "u", "n", "d">>)

RECURSIVE evaluatePath(_, _)

RECURSIVE strippedPath(_, _)

\* Lines 49-66: the index text is read; idx is Atoi of it, rest the path
\* after the bracket.
indexElement(data, idxStr, idx, rest) ==
    IF ~idx.ok
    THEN PathErr(<<"i", "n", "v", "a", "l", "i", "d", " ", "a", "r", "r", "a", "y", " ", "i", "n",
                   "d", "e", "x", " ", "'">> \o idxStr \o <<"'", ":", " ">>
                 \o <<"s", "t", "r", "c", "o", "n", "v", ".", "A", "t", "o", "i", ":", " ", "p",
                      "a", "r", "s", "i", "n", "g", " ", "\"">> \o idxStr
                 \o <<"\"", ":", " ", "i", "n", "v", "a", "l", "i", "d", " ", "s", "y", "n", "t",
                      "a", "x">>)
    ELSE IF data.t # "arr"
    THEN PathErr(<<"e", "x", "p", "e", "c", "t", "e", "d", " ", "a", "r", "r", "a", "y", " ", "b",
                   "u", "t", " ", "g", "o", "t", " ">> \o TypeName(data))
    ELSE IF idx.val < 0 \/ idx.val >= Len(data.v)
    THEN PathErr(<<"a", "r", "r", "a", "y", " ", "i", "n", "d", "e", "x", " ", "o", "u", "t", " ",
                   "o", "f", " ", "b", "o", "u", "n", "d", "s", ":", " ">>
                 \o (IF idx.val < 0 THEN <<"-">> \o Itoa(0 - idx.val) ELSE Itoa(idx.val)))
    ELSE evaluatePath(data.v[idx.val + 1], TrimPrefix(rest, <<".">>))

\* Lines 42-48: the path starts with a bracket that closes at endIdx.
indexStep(data, path, endIdx) ==
    IF endIdx = 0
    THEN PathErr(<<"u", "n", "c", "l", "o", "s", "e", "d", " ", "a", "r", "r", "a", "y", " ", "i",
                   "n", "d", "e", "x", " ", "i", "n", " ", "p", "a", "t", "h", ":", " ">> \o path)
    ELSE indexElement(data, SubSeq(path, 2, endIdx - 1), Atoi(SubSeq(path, 2, endIdx - 1)),
                      Drop(path, endIdx + 1))

\* The field key of data, whatever follows it in the path.
keyStepStops(data, key, more, rest) ==
    IF data.t # "obj" THEN ErrNotObject(key, data)
    ELSE IF key \notin DOMAIN data.v THEN ErrKeyNotFound(key)
    ELSE PathOk(data.v[key])

\* The field key of data, then the rest of the path as it is written: the
\* root selector would be stripped from the whole path only.
keyStepKeepsRoot(data, key, more, rest) ==
    IF data.t # "obj" THEN ErrNotObject(key, data)
    ELSE IF key \notin DOMAIN data.v THEN ErrKeyNotFound(key)
    ELSE IF more THEN strippedPath(data.v[key], rest)
    ELSE PathOk(data.v[key])

\* Lines 90-100 and 103-117: the field key of data, then the rest of the
\* path when there is one.
keyStep(data, key, more, rest) ==
    IF data.t # "obj" THEN ErrNotObject(key, data)
    ELSE IF key \notin DOMAIN data.v THEN ErrKeyNotFound(key)
    ELSE IF more THEN evaluatePath(data.v[key], rest)
    ELSE PathOk(data.v[key])

\* Lines 70-87: parts is the path split at its first dot, bracketIdx where
\* the first part holds a bracket.
dotStep(data, parts, bracketIdx) ==
    IF bracketIdx # 0
    THEN keyStep(data, SubSeq(parts[1], 1, bracketIdx - 1), TRUE,
                 Drop(parts[1], bracketIdx)
                 \o (IF Len(parts) > 1 THEN <<".">> \o parts[2] ELSE <<>>))
    ELSE keyStep(data, parts[1], Len(parts) > 1, IF Len(parts) > 1 THEN parts[2] ELSE <<>>)

\* Lines 37-70, on the path without its root selector.
strippedPath(data, path) ==
    IF path = <<>> THEN PathOk(data)
    ELSE IF HasPrefix(path, <<"[">>) THEN indexStep(data, path, Index(path, <<"]">>))
    ELSE dotStep(data, SplitN2(path, <<".">>), Index(SplitN2(path, <<".">>)[1], <<"[">>))

evaluatePath(data, path) == strippedPath(data, StripRoot(path))

\* The value as text, whether evaluatePath failed or not.
pathResultNoError(r) == [ok |-> TRUE, val |-> Sprint(r.val), err |-> <<>>]

\* Lines 20-26: the value as text, or the error.
pathResult(r) ==
    IF r.ok THEN [ok |-> TRUE, val |-> Sprint(r.val), err |-> <<>>]
    ELSE [ok |-> FALSE, val |-> <<>>, err |-> r.err]

\* EvaluateJSONPath's result: [ok, val, err] with val the value as text
\* (the empty string beside an error).
EvaluateJSONPath(jsonStr, path) ==
    IF jsonStr.t = "invalid"
    THEN [ok |-> FALSE, val |-> <<>>,
          err |-> <<"i", "n", "v", "a", "l", "i", "d", " ", "J", "S", "O", "N", " ", "r", "e",
                    "s", "p", "o", "n", "s", "e", ":", " ">>
                  \o <<"u", "n", "e", "x", "p", "e", "c", "t", "e", "d", " ", "e", "n", "d", " ",
                       "o", "f", " ", "J", "S", "O", "N", " ", "i", "n", "p", "u", "t">>]
    ELSE pathResult(evaluatePath(jsonStr, path))

(***************************************************************************)
(* internal/template/template.go.  Go visits the keys of a map in an order *)
(* that changes from run to run, and each ReplaceAll works on the result   *)
(* of the one before: Substitute is the set of results over the orders.    *)
(***************************************************************************)

Placeholder(key) == <<"{", "{">> \o key \o <<"}", "}">>

\* The range loop with the keys of todo still to visit.
RECURSIVE SubstituteLoop(_, _, _)
SubstituteLoop(result, variables, todo) ==
    IF todo = {} THEN {result}
    ELSE UNION {SubstituteLoop(ReplaceAll(result, Placeholder(key), variables[key]),
                               variables, todo \ {key}) : key \in todo}

Substitute(input, variables) ==
    IF Cardinality(DOMAIN variables) = 0 THEN {input}
    ELSE SubstituteLoop(input, variables, DOMAIN variables)

(***************************************************************************)
(* internal/assert/assert.go.  A result of Check is the Result struct and,  *)
(* in the field Err, the error returned with it: <<>> is nil.              *)
(***************************************************************************)

JsonpathType == <<"j", "s", "o", "n", "p", "a", "t", "h">>

OpEq == <<"=", "=">>

OpNe == <<"!", "=">>

OpContains == <<"c", "o", "n", "t", "a", "i", "n", "s">>

\* checkValue returning the evaluator's error as the error of Check, with
\* an empty Result.
checkValueReturnsError(assert, r) ==
    LET pass == CASE assert.Operator = OpEq -> r.val = assert.Value
                  [] assert.Operator = OpNe -> r.val # assert.Value
                  [] assert.Operator = OpContains -> Contains(r.val, assert.Value)
                  [] OTHER -> FALSE
        msg == (IF pass THEN <<"P", "A", "S", "S">> ELSE <<"F", "A", "I", "L">>)
               \o <<":", " ", "j", "s", "o", "n", "p", "a", "t", "h", " ", "\"">>
               \o assert.Key \o <<"\"", " ">> \o assert.Operator \o <<" ", "\"">>
               \o assert.Value \o <<"\"">>
    IN  IF ~r.ok
        THEN [Pass |-> FALSE, Err |-> r.err, Message |-> <<>>]
        ELSE IF assert.Operator \notin {OpEq, OpNe, OpContains}
        THEN [Pass |-> FALSE, Err |-> <<>>,
              Message |-> <<"u", "n", "k", "n", "o", "w", "n", " ", "o", "p", "e", "r", "a", "t",
                            "o", "r", " ", "'">> \o assert.Operator \o <<"'">>]
        ELSE [Pass |-> pass, Err |-> <<>>,
              Message |-> IF pass THEN msg
                          ELSE msg \o <<" ", "(", "a", "c", "t", "u", "a", "l", ":", " ", "\"">>
                               \o r.val \o <<"\"", ")">>]

\* checkValue with the arguments of strings.Contains exchanged.
checkValueContainsSwapped(assert, r) ==
    LET pass == CASE assert.Operator = OpEq -> r.val = assert.Value
                  [] assert.Operator = OpNe -> r.val # assert.Value
                  [] assert.Operator = OpContains -> Contains(assert.Value, r.val)
                  [] OTHER -> FALSE
        msg == (IF pass THEN <<"P", "A", "S", "S">> ELSE <<"F", "A", "I", "L">>)
               \o <<":", " ", "j", "s", "o", "n", "p", "a", "t", "h", " ", "\"">>
               \o assert.Key \o <<"\"", " ">> \o assert.Operator \o <<" ", "\"">>
               \o assert.Value \o <<"\"">>
    IN  IF ~r.ok
        THEN [Pass |-> FALSE, Err |-> <<>>,
              Message |-> <<"f", "a", "i", "l", "e", "d", " ", "t", "o", " ", "e", "v", "a", "l",
                            "u", "a", "t", "e", " ", "j", "s", "o", "n", "p", "a", "t", "h", " ",
                            "'">> \o assert.Key \o <<"'", ":", " ">> \o r.err]
        ELSE IF assert.Operator \notin {OpEq, OpNe, OpContains}
        THEN [Pass |-> FALSE, Err |-> <<>>,
              Message |-> <<"u", "n", "k", "n", "o", "w", "n", " ", "o", "p", "e", "r", "a", "t",
                            "o", "r", " ", "'">> \o assert.Operator \o <<"'">>]
        ELSE [Pass |-> pass, Err |-> <<>>,
              Message |-> IF pass THEN msg
                          ELSE msg \o <<" ", "(", "a", "c", "t", "u", "a", "l", ":", " ", "\"">>
                               \o r.val \o <<"\"", ")">>]

\* Lines 26-63: r is what EvaluateJSONPath returned for the assertion's key.
checkValue(assert, r) ==
    LET pass == CASE assert.Operator = OpEq -> r.val = assert.Value
                  [] assert.Operator = OpNe -> r.val # assert.Value
                  [] assert.Operator = OpContains -> Contains(r.val, assert.Value)
                  [] OTHER -> FALSE
        msg == (IF pass THEN <<"P", "A", "S", "S">> ELSE <<"F", "A", "I", "L">>)
               \o <<":", " ", "j", "s", "o", "n", "p", "a", "t", "h", " ", "\"">>
               \o assert.Key \o <<"\"", " ">> \o assert.Operator \o <<" ", "\"">>
               \o assert.Value \o <<"\"">>
    IN  IF ~r.ok
        THEN [Pass |-> FALSE, Err |-> <<>>,
              Message |-> <<"f", "a", "i", "l", "e", "d", " ", "t", "o", " ", "e", "v", "a", "l",
                            "u", "a", "t", "e", " ", "j", "s", "o", "n", "p", "a", "t", "h", " ",
                            "'">> \o assert.Key \o <<"'", ":", " ">> \o r.err]
        ELSE IF assert.Operator \notin {OpEq, OpNe, OpContains}
        THEN [Pass |-> FALSE, Err |-> <<>>,
              Message |-> <<"u", "n", "k", "n", "o", "w", "n", " ", "o", "p", "e", "r", "a", "t",
                            "o", "r", " ", "'">> \o assert.Operator \o <<"'">>]
        ELSE [Pass |-> pass, Err |-> <<>>,
              Message |-> IF pass THEN msg
                          ELSE msg \o <<" ", "(", "a", "c", "t", "u", "a", "l", ":", " ", "\"">>
                               \o r.val \o <<"\"", ")">>]

\* Check without the test of the assertion's type.
CheckAnyKind(assert, jsonOutput) ==
    checkValue(assert, EvaluateJSONPath(jsonOutput, assert.Key))

Check(assert, jsonOutput) ==
    IF assert.Type # JsonpathType
    THEN [Pass |-> TRUE, Err |-> <<>>,
          Message |-> <<"W", "a", "r", "n", "i", "n", "g", ":", " ", "s", "k", "i", "p", "p",
                        "i", "n", "g", " ", "u", "n", "k", "n", "o", "w", "n", " ", "a", "s",
                        "s", "e", "r", "t", "i", "o", "n", " ", "t", "y", "p", "e", " ", "'">>
                      \o assert.Type \o <<"'">>]
    ELSE checkValue(assert, EvaluateJSONPath(jsonOutput, assert.Key))

(***************************************************************************)
(* internal/file/parser.go.  A map is a function on the set of its keys;   *)
(* a time.Duration is counted in milliseconds.                             *)
(***************************************************************************)

EmptyMap == [k \in {} |-> <<>>]

MapPut(m, key, val) == [k \in DOMAIN m \cup {key} |-> IF k = key THEN val ELSE m[k]]

NoError == <<>>

\* 30 * time.Second
DefaultTimeout == 30000

DefaultProtocol == <<"g", "r", "p", "c", "-", "w", "e", "b">>

DefaultBody == <<"{", "}">>

\* The milliseconds of a unit of time.ParseDuration, 0 for an unknown unit
\* (a unit below the millisecond is known and counts as 1/1000 or 1/1000000).
UnitOk(u) == u \in {<<"n", "s">>, <<"u", "s">>, <<"m", "s">>, <<"s">>, <<"m">>, <<"h">>}

UnitScale(n, u) ==
    CASE u = <<"n", "s">> -> n \div 1000000
      [] u = <<"u", "s">> -> n \div 1000
      [] u = <<"m", "s">> -> n
      [] u = <<"s">> -> n * 1000
      [] u = <<"m">> -> n * 60000
      [] u = <<"h">> -> n * 3600000

\* How many characters at the head of s satisfy digit-ness d.
LeadingDigits(s) ==
    LET N == {i \in 1..Len(s) : ~IsDigit(s[i])}
    IN  IF N = {} THEN Len(s) ELSE MinOf(N) - 1

\* The unit of a group: up to the next digit or point.
LeadingUnit(s) ==
    LET N == {i \in 1..Len(s) : IsDigit(s[i]) \/ s[i] = "."}
    IN  IF N = {} THEN Len(s) ELSE MinOf(N) - 1

RECURSIVE DurationGroups(_)

\* A group of value val, then the groups after it.
durationSum(val, more) ==
    IF ~more.ok THEN more ELSE [ok |-> TRUE, val |-> val + more.val]

\* A group <int>[.<frac>] with the text after the number.
durationUnit(int, frac, rest, ul) ==
    IF int = <<>> /\ frac = <<>> THEN [ok |-> FALSE, val |-> 0]
    ELSE IF ul = 0 \/ ~UnitOk(SubSeq(rest, 1, ul)) THEN [ok |-> FALSE, val |-> 0]
    ELSE durationSum(UnitScale(DigitsVal(int), SubSeq(rest, 1, ul))
                     + (UnitScale(DigitsVal(frac), SubSeq(rest, 1, ul))
                        \div (IF frac = <<>> THEN 1 ELSE 10 ^ Len(frac))),
                     DurationGroups(Drop(rest, ul + 1)))

\* The fraction of a group, with the text after a point.
durationFraction(int, rest, fl) ==
    durationUnit(int, SubSeq(rest, 1, fl), Drop(rest, fl + 1), LeadingUnit(Drop(rest, fl + 1)))

\* A group whose pl leading characters are its integer digits.
durationNumber(s, pl) ==
    IF Len(s) > pl /\ s[pl + 1] = "."
    THEN durationFraction(SubSeq(s, 1, pl), Drop(s, pl + 2), LeadingDigits(Drop(s, pl + 2)))
    ELSE durationUnit(SubSeq(s, 1, pl), <<>>, Drop(s, pl + 1), LeadingUnit(Drop(s, pl + 1)))

\* The groups <digits>[.<digits>]<unit> of a duration, summed.
DurationGroups(s) ==
    IF s = <<>> THEN [ok |-> TRUE, val |-> 0] ELSE durationNumber(s, LeadingDigits(s))

\* The text of a duration without its sign, with the sum of its groups.
durationBody(negative, body, r) ==
    IF body = <<"0">> THEN [ok |-> TRUE, val |-> 0]
    ELSE IF body = <<>> \/ ~r.ok THEN [ok |-> FALSE, val |-> 0]
    ELSE [ok |-> TRUE, val |-> IF negative THEN 0 - r.val ELSE r.val]

\* time.ParseDuration: [-+]?([0-9]*(\.[0-9]*)?[a-z]+)+, or "0".
ParseDuration(s) ==
    IF Len(s) > 0 /\ s[1] \in {"+", "-"}
    THEN durationBody(s[1] = "-", Tail(s), DurationGroups(Tail(s)))
    ELSE durationBody(FALSE, s, DurationGroups(s))

\* A RequestFile without the defaults of lines 109-114.
NewRequestFileZero ==
    [Name |-> <<>>, Address |-> <<>>, Service |-> <<>>, Method |-> <<>>,
     Protocol |-> <<>>, Timeout |-> 0, Headers |-> EmptyMap,
     Body |-> <<>>, Captures |-> EmptyMap, Asserts |-> <<>>]

\* The RequestFile parseContent starts from.
NewRequestFile ==
    [Name |-> <<>>, Address |-> <<>>, Service |-> <<>>, Method |-> <<>>,
     Protocol |-> DefaultProtocol, Timeout |-> DefaultTimeout, Headers |-> EmptyMap,
     Body |-> <<>>, Captures |-> EmptyMap, Asserts |-> <<>>]

\* parseContent before its first line: the record, the section the loop is
\* in ("", "Body", "Captures", "Asserts"), the body lines and the error.
NewContent ==
    [req |-> NewRequestFile, currentSection |-> "", bodyLines |-> <<>>, err |-> NoError]

\* A line of the Captures section (it is not blank), split at its first
\* colon.
capturePair(req, parts) ==
    IF Len(parts) # 2 THEN req
    ELSE [req EXCEPT !.Captures = MapPut(@, TrimSpace(parts[1]), TrimSpace(parts[2]))]

\* A line of the Captures section split at its last colon.
captureLineLastColon(req, line) ==
    LET Colons == {c \in 1..Len(line) : line[c] = ":"}
    IN  IF Colons = {} THEN req
        ELSE [req EXCEPT !.Captures = MapPut(@, TrimSpace(SubSeq(line, 1, MaxOf(Colons) - 1)),
                                             TrimSpace(Drop(line, MaxOf(Colons) + 1)))]

captureLine(req, line) == capturePair(req, SplitN2(line, <<":">>))

\* Lines 216-231: the value, quoted or raw; endQuote closes the quoted one.
quotedValue(rest, endQuote) == IF endQuote # 0 THEN SubSeq(rest, 1, endQuote - 1) ELSE <<>>

\* The value cut at its first space when it is not quoted.
assertValueToken(rest) ==
    IF HasPrefix(rest, <<"\"">>) THEN quotedValue(Tail(rest), Index(Tail(rest), <<"\"">>))
    ELSE IF Index(rest, <<" ">>) # 0 THEN SubSeq(rest, 1, Index(rest, <<" ">>) - 1)
    ELSE rest

assertValue(rest) ==
    IF HasPrefix(rest, <<"\"">>) THEN quotedValue(Tail(rest), Index(Tail(rest), <<"\"">>))
    ELSE rest

\* Lines 208-238: the operator ends at firstSpace of rest.
assertOperator(req, aType, key, rest, firstSpace) ==
    IF firstSpace = 0 THEN req
    ELSE [req EXCEPT !.Asserts =
             Append(@, [Type |-> aType, Key |-> key,
                        Operator |-> SubSeq(rest, 1, firstSpace - 1),
                        Value |-> assertValue(TrimSpace(Drop(rest, firstSpace)))])]

\* Lines 200-206: rest follows the opening quote; the key ends at endQuote.
assertKeyEnd(req, aType, rest, endQuote) ==
    IF endQuote = 0 THEN req
    ELSE assertOperator(req, aType, SubSeq(rest, 1, endQuote - 1),
                        TrimSpace(Drop(rest, endQuote + 1)),
                        Index(TrimSpace(Drop(rest, endQuote + 1)), <<" ">>))

\* Lines 196-199: rest follows the type.
assertKey(req, aType, rest) ==
    IF ~HasPrefix(rest, <<"\"">>) THEN req
    ELSE assertKeyEnd(req, aType, Tail(rest), Index(Tail(rest), <<"\"">>))

\* Lines 189-194: the type ends at firstSpace.
assertType(req, trimmed, firstSpace) ==
    IF firstSpace = 0 THEN req
    ELSE assertKey(req, SubSeq(trimmed, 1, firstSpace - 1), TrimSpace(Drop(trimmed, firstSpace)))

\* A line of the Asserts section (it is not blank), trimmed.
assertLine(req, trimmed) ==
    IF Len(Fields(trimmed)) < 4 THEN req ELSE assertType(req, trimmed, Index(trimmed, <<" ">>))

\* Lines 272-277: the Timeout value, with what ParseDuration made of it.
timeoutLine(st, value, duration) ==
    IF duration.ok
    THEN [st EXCEPT !.req.Timeout = duration.val]
    ELSE [st EXCEPT !.err =
             <<"i", "n", "v", "a", "l", "i", "d", " ", "t", "i", "m", "e", "o", "u", "t", " ", "d",
               "u", "r", "a", "t", "i", "o", "n", " ", "\"">> \o value \o <<"\"", ":", " ">>
             \o <<"t", "i", "m", "e", ":", " ", "i", "n", "v", "a", "l", "i", "d", " ", "d", "u",
                  "r", "a", "t", "i", "o", "n", " ", "\"">> \o value \o <<"\"">>]

\* The switch on the key, deaf to the case of its letters.
keyValueAnyCase(st, key, value) ==
    CASE ToLower(key) = <<"s", "e", "r", "v", "i", "c", "e">> -> [st EXCEPT !.req.Service = value]
      [] ToLower(key) = <<"m", "e", "t", "h", "o", "d">> -> [st EXCEPT !.req.Method = value]
      [] ToLower(key) = <<"p", "r", "o", "t", "o", "c", "o", "l">>
           -> [st EXCEPT !.req.Protocol = value]
      [] ToLower(key) = <<"t", "i", "m", "e", "o", "u", "t">>
           -> timeoutLine(st, value, ParseDuration(value))
      [] OTHER -> [st EXCEPT !.req.Headers = MapPut(@, key, value)]

\* Lines 265-281: the switch on the key.
keyValue(st, key, value) ==
    CASE key = <<"S", "e", "r", "v", "i", "c", "e">> -> [st EXCEPT !.req.Service = value]
      [] key = <<"M", "e", "t", "h", "o", "d">> -> [st EXCEPT !.req.Method = value]
      [] key = <<"P", "r", "o", "t", "o", "c", "o", "l">> -> [st EXCEPT !.req.Protocol = value]
      [] key = <<"T", "i", "m", "e", "o", "u", "t">> -> timeoutLine(st, value, ParseDuration(value))
      [] OTHER -> [st EXCEPT !.req.Headers = MapPut(@, key, value)]

\* A "key: value" line of the main section, split at colonIdx.
keyValueLine(st, line, colonIdx) ==
    keyValue(st, TrimSpace(SubSeq(line, 1, colonIdx - 1)), TrimSpace(Drop(line, colonIdx + 1)))

\* A comment that names the record whatever its name is.
commentLineRenames(st, trimmed) ==
    [st EXCEPT !.req.Name = TrimSpace(TrimPrefix(trimmed, <<"#">>))]

\* Lines 127-134: a comment, trimmed, names the record that has no name.
commentLine(st, trimmed) ==
    IF st.req.Name = <<>>
    THEN [st EXCEPT !.req.Name = TrimSpace(TrimPrefix(trimmed, <<"#">>))]
    ELSE st

\* The loop collecting for the body the marker that ends it.
trimmedLineKeepsMarker(st, line, trimmed) ==
    IF st.err # NoError THEN st
    ELSE IF st.currentSection = "" /\ trimmed = <<>> THEN st
    ELSE IF HasPrefix(trimmed, <<"#">>)
    THEN IF st.req.Name = <<>>
         THEN [st EXCEPT !.req.Name = TrimSpace(TrimPrefix(trimmed, <<"#">>))]
         ELSE st
    ELSE IF trimmed = <<"[", "C", "a", "p", "t", "u", "r", "e", "s", "]">>
    THEN [st EXCEPT !.currentSection = "Captures",
                    !.bodyLines = IF st.currentSection = "Body" THEN Append(@, line) ELSE @]
    ELSE IF trimmed = <<"[", "A", "s", "s", "e", "r", "t", "s", "]">>
    THEN [st EXCEPT !.currentSection = "Asserts",
                    !.bodyLines = IF st.currentSection = "Body" THEN Append(@, line) ELSE @]
    ELSE IF st.currentSection = "Captures"
    THEN IF trimmed = <<>> THEN st ELSE [st EXCEPT !.req = captureLine(@, line)]
    ELSE IF st.currentSection = "Asserts"
    THEN IF trimmed = <<>> THEN st ELSE [st EXCEPT !.req = assertLine(@, trimmed)]
    ELSE IF st.currentSection = "Body" \/ HasPrefix(trimmed, <<"{">>)
    THEN [st EXCEPT !.currentSection = "Body", !.bodyLines = Append(@, line)]
    ELSE IF HasPrefix(line, <<"G", "R", "P", "C", " ">>)
    THEN [st EXCEPT !.req.Address = TrimSpace(TrimPrefix(line, <<"G", "R", "P", "C">>))]
    ELSE IF Index(line, <<":">>) # 0 THEN keyValueLine(st, line, Index(line, <<":">>))
    ELSE st

\* The loop looking for the markers only while no section has begun.
trimmedLineHeaderMarkers(st, line, trimmed) ==
    IF st.err # NoError THEN st
    ELSE IF st.currentSection = "" /\ trimmed = <<>> THEN st
    ELSE IF HasPrefix(trimmed, <<"#">>)
    THEN IF st.req.Name = <<>>
         THEN [st EXCEPT !.req.Name = TrimSpace(TrimPrefix(trimmed, <<"#">>))]
         ELSE st
    ELSE IF st.currentSection = "" /\ trimmed = <<"[", "C", "a", "p", "t", "u", "r", "e", "s", "]">>
    THEN [st EXCEPT !.currentSection = "Captures"]
    ELSE IF st.currentSection = "" /\ trimmed = <<"[", "A", "s", "s", "e", "r", "t", "s", "]">>
    THEN [st EXCEPT !.currentSection = "Asserts"]
    ELSE IF st.currentSection = "Captures"
    THEN IF trimmed = <<>> THEN st ELSE [st EXCEPT !.req = captureLine(@, line)]
    ELSE IF st.currentSection = "Asserts"
    THEN IF trimmed = <<>> THEN st ELSE [st EXCEPT !.req = assertLine(@, trimmed)]
    ELSE IF st.currentSection = "Body" \/ HasPrefix(trimmed, <<"{">>)
    THEN [st EXCEPT !.currentSection = "Body", !.bodyLines = Append(@, line)]
    ELSE IF HasPrefix(line, <<"G", "R", "P", "C", " ">>)
    THEN [st EXCEPT !.req.Address = TrimSpace(TrimPrefix(line, <<"G", "R", "P", "C">>))]
    ELSE IF Index(line, <<":">>) # 0 THEN keyValueLine(st, line, Index(line, <<":">>))
    ELSE st

\* One turn of the loop if a line that begins with `{` started the body in
\* the Captures and Asserts sections as well.
trimmedLineBodyAfterMarker(st, line, trimmed) ==
    IF st.err # NoError THEN st
    ELSE IF st.currentSection = "" /\ trimmed = <<>> THEN st
    ELSE IF HasPrefix(trimmed, <<"#">>) THEN commentLine(st, trimmed)
    ELSE IF trimmed = <<"[", "C", "a", "p", "t", "u", "r", "e", "s", "]">>
    THEN [st EXCEPT !.currentSection = "Captures"]
    ELSE IF trimmed = <<"[", "A", "s", "s", "e", "r", "t", "s", "]">>
    THEN [st EXCEPT !.currentSection = "Asserts"]
    ELSE IF st.currentSection = "Body" \/ HasPrefix(trimmed, <<"{">>)
    THEN [st EXCEPT !.currentSection = "Body", !.bodyLines = Append(@, line)]
    ELSE IF st.currentSection = "Captures"
    THEN IF trimmed = <<>> THEN st ELSE [st EXCEPT !.req = captureLine(@, line)]
    ELSE IF st.currentSection = "Asserts"
    THEN IF trimmed = <<>> THEN st ELSE [st EXCEPT !.req = assertLine(@, trimmed)]
    ELSE IF HasPrefix(line, <<"G", "R", "P", "C", " ">>)
    THEN [st EXCEPT !.req.Address = TrimSpace(TrimPrefix(line, <<"G", "R", "P", "C">>))]
    ELSE IF Index(line, <<":">>) # 0 THEN keyValueLine(st, line, Index(line, <<":">>))
    ELSE st

\* One turn of parseContent's loop over the lines, with the line trimmed;
\* after an error the function has returned and the lines left are not read.
trimmedLine(st, line, trimmed) ==
    IF st.err # NoError THEN st
    ELSE IF st.currentSection = "" /\ trimmed = <<>> THEN st
    ELSE IF HasPrefix(trimmed, <<"#">>) THEN commentLine(st, trimmed)
    ELSE IF trimmed = <<"[", "C", "a", "p", "t", "u", "r", "e", "s", "]">>
    THEN [st EXCEPT !.currentSection = "Captures"]
    ELSE IF trimmed = <<"[", "A", "s", "s", "e", "r", "t", "s", "]">>
    THEN [st EXCEPT !.currentSection = "Asserts"]
    ELSE IF st.currentSection = "Captures"
    THEN IF trimmed = <<>> THEN st ELSE [st EXCEPT !.req = captureLine(@, line)]
    ELSE IF st.currentSection = "Asserts"
    THEN IF trimmed = <<>> THEN st ELSE [st EXCEPT !.req = assertLine(@, trimmed)]
    ELSE IF st.currentSection = "Body" \/ HasPrefix(trimmed, <<"{">>)
    THEN [st EXCEPT !.currentSection = "Body", !.bodyLines = Append(@, line)]
    ELSE IF HasPrefix(line, <<"G", "R", "P", "C", " ">>)
    THEN [st EXCEPT !.req.Address = TrimSpace(TrimPrefix(line, <<"G", "R", "P", "C">>))]
    ELSE IF Index(line, <<":">>) # 0 THEN keyValueLine(st, line, Index(line, <<":">>))
    ELSE st

contentLine(st, line) == trimmedLine(st, line, TrimSpace(line))

RECURSIVE contentLines(_, _)
contentLines(st, lines) ==
    IF lines = <<>> THEN st ELSE contentLines(contentLine(st, Head(lines)), Tail(lines))

\* The validation without its last test (lines 299-301).
requiredFieldsNoMethod(req) ==
    IF req.Address = <<>>
    THEN [req |-> req,
          err |-> <<"m", "i", "s", "s", "i", "n", "g", " ", "r", "e", "q", "u", "i", "r", "e", "d",
                    " ", "'", "G", "R", "P", "C", " ", "<", "a", "d", "d", "r", "e", "s", "s", ">",
                    "'", " ", "l", "i", "n", "e">>]
    ELSE IF req.Service = <<>>
    THEN [req |-> req,
          err |-> <<"m", "i", "s", "s", "i", "n", "g", " ", "r", "e", "q", "u", "i", "r", "e", "d",
                    " ", "'", "S", "e", "r", "v", "i", "c", "e", ":", "'", " ", "f", "i", "e", "l",
                    "d">>]
    ELSE [req |-> req, err |-> NoError]

\* Lines 292-303: the required fields.
requiredFields(req) ==
    IF req.Address = <<>>
    THEN [req |-> req,
          err |-> <<"m", "i", "s", "s", "i", "n", "g", " ", "r", "e", "q", "u", "i", "r", "e", "d",
                    " ", "'", "G", "R", "P", "C", " ", "<", "a", "d", "d", "r", "e", "s", "s", ">",
                    "'", " ", "l", "i", "n", "e">>]
    ELSE IF req.Service = <<>>
    THEN [req |-> req,
          err |-> <<"m", "i", "s", "s", "i", "n", "g", " ", "r", "e", "q", "u", "i", "r", "e", "d",
                    " ", "'", "S", "e", "r", "v", "i", "c", "e", ":", "'", " ", "f", "i", "e", "l",
                    "d">>]
    ELSE IF req.Method = <<>>
    THEN [req |-> req,
          err |-> <<"m", "i", "s", "s", "i", "n", "g", " ", "r", "e", "q", "u", "i", "r", "e", "d",
                    " ", "'", "M", "e", "t", "h", "o", "d", ":", "'", " ", "f", "i", "e", "l",
                    "d">>]
    ELSE [req |-> req, err |-> NoError]

\* What parseContent does once the lines are read: the body, then the
\* required fields.
contentEnd(st) ==
    IF st.err # NoError THEN [req |-> st.req, err |-> st.err]
    ELSE requiredFields([st.req EXCEPT !.Body = IF Len(st.bodyLines) > 0
                                                THEN JoinLines(st.bodyLines)
                                                ELSE DefaultBody])

\* parseContent: [req, err].
parseContent(lines) == contentEnd(contentLines(NewContent, lines))

Separator == <<"-", "-", "-">>

\* The scanner loop if a separator closed the section without starting a new
\* one: the lines of a section would reach the sections after it.
scanLineKeepsLines(sc, line) ==
    IF TrimSpace(line) = Separator
    THEN IF Len(sc.currentSection) > 0
         THEN [sc EXCEPT !.sections = Append(@, sc.currentSection)]
         ELSE sc
    ELSE [sc EXCEPT !.currentSection = Append(@, line)]

\* One turn of ParseMultiple's scanner loop, on [sections, currentSection].
scanLine(sc, line) ==
    IF TrimSpace(line) = Separator
    THEN IF Len(sc.currentSection) > 0
         THEN [sections |-> Append(sc.sections, sc.currentSection), currentSection |-> <<>>]
         ELSE sc
    ELSE [sc EXCEPT !.currentSection = Append(@, line)]

\* After the last line: the section still open is kept.
scanEnd(sc) ==
    IF Len(sc.currentSection) > 0 THEN Append(sc.sections, sc.currentSection)
    ELSE sc.sections

NoRequestsFound ==
    <<"n", "o", " ", "r", "e", "q", "u", "e", "s", "t", "s", " ", "f", "o", "u", "n", "d", " ",
      "i", "n", " ", "f", "i", "l", "e">>

\* fmt.Errorf("request %d: %w", i+1, err)
RequestError(n, err) == <<"r", "e", "q", "u", "e", "s", "t", " ">> \o Itoa(n) \o <<":", " ">> \o err

RECURSIVE scanLines(_, _)
scanLines(sc, lines) ==
    IF lines = <<>> THEN sc ELSE scanLines(scanLine(sc, Head(lines)), Tail(lines))

RECURSIVE parseSections(_, _, _)

\* The loop over the sections if a section that fails ended it with the
\* requests read before it.
sectionParsedKeepsEarlier(sections, i, requests, r) ==
    IF r.err # NoError
    THEN [requests |-> requests,
          err |-> IF requests = <<>> THEN RequestError(i, r.err) ELSE NoError]
    ELSE parseSections(sections, i + 1, Append(requests, r.req))

\* Lines 88-92: r is what parseContent returned for section i.
sectionParsed(sections, i, requests, r) ==
    IF r.err # NoError
    THEN [requests |-> <<>>, err |-> RequestError(i, r.err)]
    ELSE parseSections(sections, i + 1, Append(requests, r.req))

\* The loop over the sections, from section i on, with the requests so far.
parseSections(sections, i, requests) ==
    IF i > Len(sections) THEN [requests |-> requests, err |-> NoError]
    ELSE sectionParsed(sections, i, requests, parseContent(sections[i]))

\* Lines 82-95: the sections are read.
parseScanned(sections) ==
    IF Len(sections) = 0 THEN [requests |-> <<>>, err |-> NoRequestsFound]
    ELSE parseSections(sections, 1, <<>>)

\* ParseMultiple on the lines of a file that could be read: [requests, err].
ParseMultiple(lines) ==
    parseScanned(scanEnd(scanLines([sections |-> <<>>, currentSection |-> <<>>], lines)))

(***************************************************************************)
(* cmd/run.go and the collaborators it calls.                              *)
(***************************************************************************)

\* parseAddressAndPrefix: the address is cut before its third slash.
parseAddressAndPrefix(address) ==
    LET slashes == {k \in 1..Len(address) : address[k] = "/"}
        third == {k \in slashes : Cardinality({j \in slashes : j <= k}) = 3}
    IN  IF third = {} THEN <<address, <<>>>>
        ELSE LET k == CHOOSE k \in third : TRUE
             IN  <<SubSeq(address, 1, k - 1), Drop(address, k)>>

\* client.ParseProtocol: whether the text names a protocol.
ParseProtocol(s) ==
    ToLower(s) \in {<<"g", "r", "p", "c">>, <<"g", "r", "p", "c", "-", "w", "e", "b">>,
                    <<"c", "o", "n", "n", "e", "c", "t">>}

\* The services the loaded proto files declare, each with its methods.
RegistryServices == (<<"S">> :> {<<"M">>})

\* Registry.FindMethod: whether the registry holds the method.
FindMethod(serviceName, methodName) ==
    /\ serviceName \in DOMAIN RegistryServices
    /\ methodName \in RegistryServices[serviceName]

\* client.NewClient with the request as Call sends it: what one invocation
\* of the transport is given; split is the address and its prefix.
clientCall(index, reqFile, split) ==
    [index |-> index,
     address |-> TrimSuffix(split[1], <<"/">>),
     prefix |-> TrimSuffix(split[2], <<"/">>),
     protocol |-> ToLower(reqFile.Protocol),
     headers |-> reqFile.Headers,
     service |-> reqFile.Service,
     method |-> reqFile.Method,
     body |-> reqFile.Body,
     timeout |-> reqFile.Timeout]

NewCall(index, reqFile) == clientCall(index, reqFile, parseAddressAndPrefix(reqFile.Address))

(***************************************************************************)
(* The documents and the responses the runs are checked on.                *)
(***************************************************************************)

\* The most records a document of a run holds.
MaxRecords == 3

\* The segments the files of the runs are made of.
Seg ==
    [
     \* Captures x and y; its assertion holds of every response.
     Capture |->
        << <<"G", "R", "P", "C", " ", "h">>,
           <<"S", "e", "r", "v", "i", "c", "e", ":", " ", "S">>,
           <<"M", "e", "t", "h", "o", "d", ":", " ", "M">>,
           <<"[", "C", "a", "p", "t", "u", "r", "e", "s", "]">>,
           <<"x", ":", " ", "a">>,
           <<"y", ":", " ", "b">>,
           <<"[", "A", "s", "s", "e", "r", "t", "s", "]">>,
           <<"j", "s", "o", "n", "p", "a", "t", "h", " ", "\"", "a", "\"", " ", "!", "=", " ", "\"",
             "B", "\"">> >>,
     \* Placeholders in the name, the address, a header key and value, the
     \* body, a capture path and an expected value; two assertions.
     Use |->
        << <<"#", " ", "n", "{", "{", "x", "}", "}">>,
           <<"G", "R", "P", "C", " ", "h", "/", "{", "{", "x", "}", "}">>,
           <<"S", "e", "r", "v", "i", "c", "e", ":", " ", "S">>,
           <<"M", "e", "t", "h", "o", "d", ":", " ", "M">>,
           <<"K", "{", "{", "x", "}", "}", ":", " ", "{", "{", "x", "}", "}">>,
           <<"{", "{", "y", "}", "}">>,
           <<"[", "C", "a", "p", "t", "u", "r", "e", "s", "]">>,
           <<"z", ":", " ", "{", "{", "x", "}", "}">>,
           <<"[", "A", "s", "s", "e", "r", "t", "s", "]">>,
           <<"j", "s", "o", "n", "p", "a", "t", "h", " ", "\"", "b", "\"", " ", "=", "=", " ", "\"",
             "B", "\"">>,
           <<"j", "s", "o", "n", "p", "a", "t", "h", " ", "\"", "a", "\"", " ", "!", "=", " ", "\"",
             "{", "{", "x", "}", "}", "\"">> >>,
     \* No captures, no assertions.
     Plain |->
        << <<"G", "R", "P", "C", " ", "h">>,
           <<"S", "e", "r", "v", "i", "c", "e", ":", " ", "S">>,
           <<"M", "e", "t", "h", "o", "d", ":", " ", "M">>,
           <<"P", "r", "o", "t", "o", "c", "o", "l", ":", " ", "g", "R", "P", "C">>,
           <<"T", "i", "m", "e", "o", "u", "t", ":", " ", "5", "s">> >>,
     \* A service and a method the registry does not hold.
     BadService |->
        << <<"G", "R", "P", "C", " ", "h">>,
           <<"S", "e", "r", "v", "i", "c", "e", ":", " ", "{", "{", "x", "}", "}">>,
           <<"M", "e", "t", "h", "o", "d", ":", " ", "{", "{", "y", "}", "}">> >>,
     \* A protocol ParseProtocol refuses.
     BadProtocol |->
        << <<"G", "R", "P", "C", " ", "h">>,
           <<"S", "e", "r", "v", "i", "c", "e", ":", " ", "S">>,
           <<"M", "e", "t", "h", "o", "d", ":", " ", "M">>,
           <<"P", "r", "o", "t", "o", "c", "o", "l", ":", " ", "{", "{", "x", "}", "}">> >>,
     \* No Method line: parseContent refuses the segment.
     NoMethod |->
        << <<"G", "R", "P", "C", " ", "h">>,
           <<"S", "e", "r", "v", "i", "c", "e", ":", " ", "S">> >>
    ]

SegmentPool == {Seg.Capture, Seg.Use, Seg.Plain, Seg.BadService, Seg.BadProtocol}

RECURSIVE JoinSegments(_)
JoinSegments(segs) ==
    IF Len(segs) = 0 THEN <<>>
    ELSE IF Len(segs) = 1 THEN segs[1]
    ELSE segs[1] \o <<Separator>> \o JoinSegments(Tail(segs))

\* The files of the runs: up to MaxRecords segments of the pool, and two
\* files ParseMultiple refuses.
RunDocuments ==
    {JoinSegments(segs) : segs \in UNION {[1..n -> SegmentPool] : n \in 1..MaxRecords}}
    \cup {<<>>, JoinSegments(<<Seg.Capture, Seg.NoMethod>>)}

\* The responses of the server, as ProtoToJSON renders them.
Resp ==
    [
     Plain |->
        JObj(<<"a">> :> JStr(<<"A">>) @@ <<"b">> :> JStr(<<"B">>)),
     Braces |->
        JObj(<<"a">> :> JStr(<<"{", "{", "y", "}", "}">>))
    ]

Responses == {Resp.Plain, Resp.Braces}

VARIABLES
    doc,             \* the lines of the request file
    pc,              \* where the command (or the parser) is
    requests,        \* the records ParseMultiple returned, as the loop rewrites them
    parsed,          \* the records as ParseMultiple returned them
    i,               \* the record (or the section) the loop is at, from 1
    variables,       \* the variable store
    jsonOutput,      \* the response of the current record, as JSON
    todo,            \* the capture names the range loop has not visited yet
    nextAssert,      \* the assertion the loop is at, from 1
    allPassed,       \* the flag of the assertion loop
    outcome,         \* "running", then "ok" (RunE returns nil) or "error"
    failure,         \* the step whose error RunE returned, "" when none
    calls,           \* the invocations of the transport, in order
    inflight,        \* the transport calls that have not returned
    output,          \* what the loop has reported of captures and assertions
    lineNo,          \* ParseMultiple: the line the scanner is at, from 1
    sections,        \* ParseMultiple: the sections closed so far
    currentSection,  \* ParseMultiple: the lines of the section still open
    err,             \* ParseMultiple: the error it returned, NoError when none
    content,         \* parseContent: the record, the section, the body lines, the error
    evalPath,        \* the path EvaluateJSONPath is given
    evalSteps,       \* the keys and indices the path was written from
    evalResult,      \* what EvaluateJSONPath returned
    substInput,      \* the text Substitute is given
    substOutput,     \* what Substitute can return for it, one text for each order of the keys
    substAgain,      \* what Substitute can return for the texts it returned
    checkAssert,     \* the assertion Check is given
    checkResult      \* the result Check returned

vars == <<doc, pc, requests, parsed, i, variables, jsonOutput, todo, nextAssert, allPassed,
          outcome, failure, calls, inflight, output, lineNo, sections, currentSection, err,
          content, evalPath, evalSteps, evalResult, substInput, substOutput, substAgain,
          checkAssert, checkResult>>

runVars == <<requests, parsed, i, variables, jsonOutput, todo, nextAssert, allPassed,
             outcome, failure, calls, inflight, output>>

scanVars == <<lineNo, sections, currentSection, err, content>>

pathVars == <<evalPath, evalSteps, evalResult, substInput, substOutput, substAgain,
              checkAssert, checkResult>>

\* No path has been evaluated.
NoResult == [ok |-> FALSE, val |-> <<>>, err |-> <<>>]

NoPath ==
    /\ evalPath = <<>>
    /\ evalSteps = <<>>
    /\ evalResult = NoResult
    /\ substInput = <<>>
    /\ substOutput = {}
    /\ substAgain = {}
    /\ checkAssert = <<>>
    /\ checkResult = <<>>

\* The state before RunE's first statement, for the file doc0.
AtStart(doc0) ==
    /\ doc = doc0
    /\ pc = "start"
    /\ requests = <<>>
    /\ parsed = <<>>
    /\ i = 0
    /\ variables = EmptyMap
    /\ jsonOutput = JNull
    /\ todo = {}
    /\ nextAssert = 0
    /\ allPassed = TRUE
    /\ outcome = "running"
    /\ failure = ""
    /\ calls = <<>>
    /\ inflight = 0
    /\ output = <<>>
    /\ lineNo = 0
    /\ sections = <<>>
    /\ currentSection = <<>>
    /\ err = NoError
    /\ content = NewContent
    /\ NoPath

Init == \E d \in RunDocuments : AtStart(d)

\* RunE returns the error of the step named.
Fail(step) ==
    /\ pc' = "done"
    /\ outcome' = "error"
    /\ failure' = step

\* Lines 46-58, with what ParseMultiple returned; LoadProtos may fail.
FileParsed(r) ==
    \/ /\ r.err # NoError
       /\ Fail("parse")
       /\ UNCHANGED <<requests, parsed, i>>
    \/ /\ r.err = NoError
       /\ Fail("protos")
       /\ UNCHANGED <<requests, parsed, i>>
    \/ /\ r.err = NoError
       /\ requests' = r.requests
       /\ parsed' = r.requests
       /\ i' = 1
       /\ pc' = "substitute"
       /\ UNCHANGED <<outcome, failure>>

\* file.ParseMultiple, then proto.LoadProtos.
ParseFile ==
    /\ pc = "start"
    /\ FileParsed(ParseMultiple(doc))
    /\ UNCHANGED <<pathVars, doc, variables, jsonOutput, todo, nextAssert, allPassed, calls, inflight,
                   output, scanVars>>

\* The header values Substitute can leave, one choice for each key.
SubstituteHeaders(headers, store) ==
    {h \in [DOMAIN headers -> UNION {Substitute(headers[k], store) : k \in DOMAIN headers}] :
        \A k \in DOMAIN headers : h[k] \in Substitute(headers[k], store)}

\* The rewriting if it reached the service name as well.
SubstitutedWithService(reqFile, store) ==
    {[reqFile EXCEPT !.Address = address, !.Body = body, !.Headers = headers,
                     !.Service = service] :
        address \in Substitute(reqFile.Address, store),
        body \in Substitute(reqFile.Body, store),
        headers \in SubstituteHeaders(reqFile.Headers, store),
        service \in Substitute(reqFile.Service, store)}

\* The record with Address, Body and the header values substituted.
Substituted(reqFile, store) ==
    {[reqFile EXCEPT !.Address = address, !.Body = body, !.Headers = headers] :
        address \in Substitute(reqFile.Address, store),
        body \in Substitute(reqFile.Body, store),
        headers \in SubstituteHeaders(reqFile.Headers, store)}

\* The rewriting if a placeholder left in the address or the body ended the
\* run.
SubstituteRecordStrict ==
    /\ pc = "substitute"
    /\ \E reqFile \in Substituted(requests[i], variables) :
          /\ requests' = [requests EXCEPT ![i] = reqFile]
          /\ IF Contains(reqFile.Address \o reqFile.Body, <<"{", "{">>)
             THEN Fail("substitute")
             ELSE pc' = "resolve" /\ UNCHANGED <<outcome, failure>>
    /\ UNCHANGED <<pathVars, doc, parsed, i, variables, jsonOutput, todo, nextAssert, allPassed,
                   calls, inflight, output, scanVars>>

\* Lines 67-72: the record is rewritten in place.
SubstituteRecord ==
    /\ pc = "substitute"
    /\ \E reqFile \in Substituted(requests[i], variables) :
          requests' = [requests EXCEPT ![i] = reqFile]
    /\ pc' = "resolve"
    /\ UNCHANGED <<pathVars, doc, parsed, i, variables, jsonOutput, todo, nextAssert, allPassed,
                   outcome, failure, calls, inflight, output, scanVars>>

\* Lines 82-92: registry.FindMethod.
Resolve ==
    /\ pc = "resolve"
    /\ IF FindMethod(requests[i].Service, requests[i].Method)
       THEN pc' = "protocol" /\ UNCHANGED <<outcome, failure>>
       ELSE Fail("resolve")
    /\ UNCHANGED <<pathVars, doc, requests, parsed, i, variables, jsonOutput, todo, nextAssert,
                   allPassed, calls, inflight, output, scanVars>>

\* Lines 94-98: client.ParseProtocol.
Protocol ==
    /\ pc = "protocol"
    /\ IF ParseProtocol(requests[i].Protocol)
       THEN pc' = "encode" /\ UNCHANGED <<outcome, failure>>
       ELSE Fail("protocol")
    /\ UNCHANGED <<pathVars, doc, requests, parsed, i, variables, jsonOutput, todo, nextAssert,
                   allPassed, calls, inflight, output, scanVars>>

\* Lines 100-110: the client is built and client.JSONToProto, which the
\* body and the method's input type decide, converts the body or fails.
Encode ==
    /\ pc = "encode"
    /\ \/ pc' = "call" /\ UNCHANGED <<outcome, failure>>
       \/ Fail("encode")
    /\ UNCHANGED <<pathVars, doc, requests, parsed, i, variables, jsonOutput, todo, nextAssert,
                   allPassed, calls, inflight, output, scanVars>>

\* Line 114: c.Call hands the request to the transport.
Dispatch ==
    /\ pc = "call"
    /\ calls' = Append(calls, NewCall(i, requests[i]))
    /\ inflight' = inflight + 1
    /\ pc' = "inflight"
    /\ UNCHANGED <<pathVars, doc, requests, parsed, i, variables, jsonOutput, todo, nextAssert,
                   allPassed, outcome, failure, output, scanVars>>

\* The return of the call if a failed call were sent again.
CallReturnRetries ==
    /\ pc = "inflight"
    /\ inflight' = inflight - 1
    /\ \/ pc' = "call" /\ UNCHANGED <<jsonOutput, todo, outcome, failure>>
       \/ Fail("decode") /\ UNCHANGED <<jsonOutput, todo>>
       \/ \E response \in Responses :
             /\ jsonOutput' = response
             /\ todo' = DOMAIN requests[i].Captures
             /\ pc' = "captures"
             /\ UNCHANGED <<outcome, failure>>
    /\ UNCHANGED <<pathVars, doc, requests, parsed, i, variables, nextAssert, allPassed, calls,
                   output, scanVars>>

\* Lines 114-125: the call returns an error, or a response that
\* client.ProtoToJSON renders or fails to render.
CallReturn ==
    /\ pc = "inflight"
    /\ inflight' = inflight - 1
    /\ \/ Fail("call") /\ UNCHANGED <<jsonOutput, todo>>
       \/ Fail("decode") /\ UNCHANGED <<jsonOutput, todo>>
       \/ \E response \in Responses :
             /\ jsonOutput' = response
             /\ todo' = DOMAIN requests[i].Captures
             /\ pc' = "captures"
             /\ UNCHANGED <<outcome, failure>>
    /\ UNCHANGED <<pathVars, doc, requests, parsed, i, variables, nextAssert, allPassed, calls,
                   output, scanVars>>

\* The capture if a failed evaluation dropped the variable from the store.
CapturedOrDropped(varName, r) ==
    /\ variables' = IF r.ok THEN MapPut(variables, varName, r.val)
                    ELSE [k \in DOMAIN variables \ {varName} |-> variables[k]]
    /\ output' = Append(output, [index |-> i, what |-> "capture", name |-> varName,
                                 ok |-> r.ok])
    /\ todo' = todo \ {varName}

\* The capture if a successful evaluation started the store afresh.
CapturedAfresh(varName, r) ==
    /\ variables' = IF r.ok THEN MapPut(EmptyMap, varName, r.val) ELSE variables
    /\ output' = Append(output, [index |-> i, what |-> "capture", name |-> varName,
                                 ok |-> r.ok])
    /\ todo' = todo \ {varName}

\* Lines 133-139: r is what EvaluateJSONPath returned for the capture.
Captured(varName, r) ==
    /\ variables' = IF r.ok THEN MapPut(variables, varName, r.val) ELSE variables
    /\ output' = Append(output, [index |-> i, what |-> "capture", name |-> varName,
                                 ok |-> r.ok])
    /\ todo' = todo \ {varName}

\* Lines 132-140: one turn of the range loop over the captures, in the
\* order the map gives.
Capture ==
    /\ pc = "captures"
    /\ \E varName \in todo :
          Captured(varName, EvaluateJSONPath(jsonOutput, requests[i].Captures[varName]))
    /\ UNCHANGED <<pathVars, doc, pc, requests, parsed, i, jsonOutput, nextAssert, allPassed, outcome,
                   failure, calls, inflight, scanVars>>

\* The start of the assertion loop if the flag started false.
BeginAssertsFailed ==
    /\ pc = "captures"
    /\ todo = {}
    /\ pc' = "asserts"
    /\ nextAssert' = 1
    /\ allPassed' = FALSE
    /\ UNCHANGED <<pathVars, doc, requests, parsed, i, variables, jsonOutput, todo, outcome, failure,
                   calls, inflight, output, scanVars>>

\* The start of the assertion loop if the loop were left at once.
BeginAssertsSkips ==
    /\ pc = "captures"
    /\ todo = {}
    /\ pc' = "asserts"
    /\ nextAssert' = Len(requests[i].Asserts) + 1
    /\ allPassed' = TRUE
    /\ UNCHANGED <<pathVars, doc, requests, parsed, i, variables, jsonOutput, todo, outcome, failure,
                   calls, inflight, output, scanVars>>

\* Lines 143-146: the captures are done.
BeginAsserts ==
    /\ pc = "captures"
    /\ todo = {}
    /\ pc' = "asserts"
    /\ nextAssert' = 1
    /\ allPassed' = TRUE
    /\ UNCHANGED <<pathVars, doc, requests, parsed, i, variables, jsonOutput, todo, outcome, failure,
                   calls, inflight, output, scanVars>>

\* Lines 156-159: result is what Check returned.
Asserted(result) ==
    /\ allPassed' = (allPassed /\ result.Pass)
    /\ output' = Append(output, [index |-> i, what |-> "assert", name |-> nextAssert,
                                 ok |-> result.Pass])

\* One turn of the loop over the assertions if a failed assertion left the
\* loop.
CheckAssertBreaks ==
    /\ pc = "asserts"
    /\ nextAssert <= Len(requests[i].Asserts)
    /\ Asserted(Check(requests[i].Asserts[nextAssert], jsonOutput))
    /\ nextAssert' = IF Check(requests[i].Asserts[nextAssert], jsonOutput).Pass
                     THEN nextAssert + 1
                     ELSE Len(requests[i].Asserts) + 1
    /\ UNCHANGED <<pathVars, doc, pc, requests, parsed, i, variables, jsonOutput, todo, outcome,
                   failure, calls, inflight, scanVars>>

\* Lines 147-160: one turn of the loop over the assertions.
CheckAssert ==
    /\ pc = "asserts"
    /\ nextAssert <= Len(requests[i].Asserts)
    /\ Asserted(Check(requests[i].Asserts[nextAssert], jsonOutput))
    /\ nextAssert' = nextAssert + 1
    /\ UNCHANGED <<pathVars, doc, pc, requests, parsed, i, variables, jsonOutput, todo, outcome,
                   failure, calls, inflight, scanVars>>

\* The end of a record if a failed assertion did not stop the run.
EndRecordGoesOn ==
    /\ pc = "asserts"
    /\ nextAssert > Len(requests[i].Asserts)
    /\ IF i < Len(requests)
       THEN i' = i + 1 /\ pc' = "substitute" /\ UNCHANGED <<outcome, failure>>
       ELSE IF ~allPassed
       THEN Fail("asserts") /\ UNCHANGED i
       ELSE pc' = "done" /\ outcome' = "ok" /\ UNCHANGED <<i, failure>>
    /\ UNCHANGED <<pathVars, doc, requests, parsed, variables, jsonOutput, todo, nextAssert, allPassed,
                   calls, inflight, output, scanVars>>

\* Lines 162-168: the record ends; the run stops on a failed assertion and
\* returns nil after the last record.
EndRecord ==
    /\ pc = "asserts"
    /\ nextAssert > Len(requests[i].Asserts)
    /\ IF ~allPassed
       THEN Fail("asserts") /\ UNCHANGED i
       ELSE IF i < Len(requests)
       THEN i' = i + 1 /\ pc' = "substitute" /\ UNCHANGED <<outcome, failure>>
       ELSE pc' = "done" /\ outcome' = "ok" /\ UNCHANGED <<i, failure>>
    /\ UNCHANGED <<pathVars, doc, requests, parsed, variables, jsonOutput, todo, nextAssert, allPassed,
                   calls, inflight, output, scanVars>>

Next ==
    \/ ParseFile
    \/ SubstituteRecord
    \/ Resolve
    \/ Protocol
    \/ Encode
    \/ Dispatch
    \/ CallReturn
    \/ Capture
    \/ BeginAsserts
    \/ CheckAssert
    \/ EndRecord

Spec == Init /\ [][Next]_vars

\* The assertion loop and the statements after it wait for nothing: once
\* reached, they run.
SpecFair == Spec /\ WF_vars(CheckAssert) /\ WF_vars(EndRecord)

(***************************************************************************)
(* ParseMultiple, step by step: the scanner loop over the lines of a file, *)
(* then the loop over the sections.                                        *)
(***************************************************************************)

\* The most pieces a file of the parser is put together from.
MaxItems == 4

\* The sections the files of the parser are made of.
Item ==
    [
     \* A record with a name, a header, a timeout, a capture and an assertion.
     A |->
        << <<"#", " ", "a">>,
           <<"G", "R", "P", "C", " ", "h">>,
           <<"S", "e", "r", "v", "i", "c", "e", ":", " ", "S">>,
           <<"M", "e", "t", "h", "o", "d", ":", " ", "M">>,
           <<"K", ":", " ", "v">>,
           <<"T", "i", "m", "e", "o", "u", "t", ":", " ", "5", "s">>,
           <<"[", "C", "a", "p", "t", "u", "r", "e", "s", "]">>,
           <<"x", ":", " ", "a">>,
           <<"[", "A", "s", "s", "e", "r", "t", "s", "]">>,
           <<"j", "s", "o", "n", "p", "a", "t", "h", " ", "\"", "a", "\"", " ", "=", "=", " ", "\"", "A", "\"">> >>,
     \* A record with the required fields only.
     B |->
        << <<"G", "R", "P", "C", " ", "g">>,
           <<"S", "e", "r", "v", "i", "c", "e", ":", " ", "T">>,
           <<"M", "e", "t", "h", "o", "d", ":", " ", "N">> >>,
     \* No Method line: parseContent refuses the section.
     Bad |->
        << <<"G", "R", "P", "C", " ", "h">>,
           <<"S", "e", "r", "v", "i", "c", "e", ":", " ", "S">> >>,
     \* A Timeout line that is no duration: parseContent refuses the section.
     BadTimeout |->
        << <<"G", "R", "P", "C", " ", "h">>,
           <<"S", "e", "r", "v", "i", "c", "e", ":", " ", "S">>,
           <<"M", "e", "t", "h", "o", "d", ":", " ", "M">>,
           <<"T", "i", "m", "e", "o", "u", "t", ":", " ", "x">> >>
    ]

\* The pieces: a separator line, a separator line with spaces around it, an
\* empty line, and the lines of the four records.
ItemPool ==
    {<<Separator>>, <<(<<" ">> \o Separator \o <<" ">>)>>, << <<>> >>, Item.A, Item.B, Item.Bad,
     Item.BadTimeout}

RECURSIVE Concat(_)
Concat(items) == IF items = <<>> THEN <<>> ELSE Head(items) \o Concat(Tail(items))

\* The files of the parser: up to MaxItems pieces, one after the other.
ParseDocuments == {Concat(items) : items \in UNION {[1..n -> ItemPool] : n \in 0..MaxItems}}

\* The state before ParseMultiple's scanner loop, for the file doc0.
AtScan(doc0) ==
    /\ doc = doc0
    /\ pc = "scan"
    /\ requests = <<>>
    /\ parsed = <<>>
    /\ i = 0
    /\ variables = EmptyMap
    /\ jsonOutput = JNull
    /\ todo = {}
    /\ nextAssert = 0
    /\ allPassed = TRUE
    /\ outcome = "running"
    /\ failure = ""
    /\ calls = <<>>
    /\ inflight = 0
    /\ output = <<>>
    /\ lineNo = 0
    /\ sections = <<>>
    /\ currentSection = <<>>
    /\ err = NoError
    /\ content = NewContent
    /\ NoPath

InitParse == \E d \in ParseDocuments : AtScan(d)

\* Lines 60-71, with what the turn made of [sections, currentSection].
Scanned(sc) ==
    /\ sections' = sc.sections
    /\ currentSection' = sc.currentSection

\* Lines 60-71: one turn of the scanner loop.
ScanLine ==
    /\ pc = "scan"
    /\ lineNo < Len(doc)
    /\ Scanned(scanLine([sections |-> sections, currentSection |-> currentSection],
                        doc[lineNo + 1]))
    /\ lineNo' = lineNo + 1
    /\ UNCHANGED <<pathVars, doc, pc, err, content, runVars>>

\* Lines 78-84, with the sections once the open one is kept.
SectionsRead(all) ==
    /\ sections' = all
    /\ IF Len(all) = 0
       THEN err' = NoRequestsFound /\ pc' = "done" /\ UNCHANGED i
       ELSE i' = 1 /\ pc' = "sections" /\ UNCHANGED err

\* Lines 78-84: the file is read.
ScanEnd ==
    /\ pc = "scan"
    /\ lineNo = Len(doc)
    /\ SectionsRead(scanEnd([sections |-> sections, currentSection |-> currentSection]))
    /\ currentSection' = <<>>
    /\ UNCHANGED <<pathVars, doc, lineNo, requests, parsed, variables, jsonOutput, todo, nextAssert,
                   allPassed, outcome, failure, calls, inflight, output, content>>

\* The loop over the sections returning the records it has when a
\* section is refused.
SectionParsedKeeps(r) ==
    IF r.err # NoError
    THEN /\ requests' = requests
         /\ err' = RequestError(i, r.err)
         /\ pc' = "done"
         /\ UNCHANGED i
    ELSE /\ requests' = Append(requests, r.req)
         /\ i' = i + 1
         /\ UNCHANGED <<pc, err>>

\* Lines 88-92, with what parseContent returned for section i.
SectionParsed(r) ==
    IF r.err # NoError
    THEN /\ requests' = <<>>
         /\ err' = RequestError(i, r.err)
         /\ pc' = "done"
         /\ UNCHANGED i
    ELSE /\ requests' = Append(requests, r.req)
         /\ i' = i + 1
         /\ UNCHANGED <<pc, err>>

\* Lines 87-93: one turn of the loop over the sections.
ParseSection ==
    /\ pc = "sections"
    /\ i <= Len(sections)
    /\ SectionParsed(parseContent(sections[i]))
    /\ UNCHANGED <<pathVars, doc, lineNo, sections, currentSection, parsed, variables, jsonOutput, todo,
                   nextAssert, allPassed, outcome, failure, calls, inflight, output, content>>

\* Line 95: ParseMultiple returns the requests.
ParseReturn ==
    /\ pc = "sections"
    /\ i > Len(sections)
    /\ pc' = "done"
    /\ UNCHANGED <<pathVars, doc, lineNo, sections, currentSection, err, content, runVars>>

NextParse ==
    \/ ScanLine
    \/ ScanEnd
    \/ ParseSection
    \/ ParseReturn

SpecParse == InitParse /\ [][NextParse]_vars

(***************************************************************************)
(* parseContent, line by line: the loop over the lines of one section,     *)
(* then the body and the required fields.                                  *)
(***************************************************************************)

\* The most lines a section holds after its first lines.
MaxLines == 3

\* The lines the sections are made of.
Line ==
    [
     \* The address line.
     Address |->
        <<"G", "R", "P", "C", " ", "h">>,
     \* The service line.
     Service |->
        <<"S", "e", "r", "v", "i", "c", "e", ":", " ", "S">>,
     \* The method line.
     Method |->
        <<"M", "e", "t", "h", "o", "d", ":", " ", "M">>,
     \* A line that starts the body.
     Brace |->
        <<"{">>,
     \* The marker of the Captures section.
     Captures |->
        <<"[", "C", "a", "p", "t", "u", "r", "e", "s", "]">>,
     \* The marker of the Asserts section.
     Asserts |->
        <<"[", "A", "s", "s", "e", "r", "t", "s", "]">>,
     \* A key and a value with a colon in it, with spaces around them.
     Pair |->
        <<" ", "x", " ", ":", " ", "a", ":", "b", " ">>,
     \* A line without a colon.
     Word |->
        <<"b", "a", "d">>,
     \* A comment.
     Name |->
        <<"#", " ", "a">>,
     \* A comment without text.
     Hash |->
        <<"#">>,
     \* An assertion with a quoted value and quoted text after it.
     Quoted |->
        <<"j", "s", "o", "n", "p", "a", "t", "h", " ", "\"", "a", " ", "b", "\"", " ", "=", "=",
          " ", "\"", "v", "\"", " ", "\"", "w", "\"">>,
     \* An assertion with a value that is not quoted.
     Raw |->
        <<"t", " ", "\"", "k", "\"", " ", "!", "=", " ", "5", " ", "6">>,
     \* A timeout.
     Timeout |->
        <<"T", "i", "m", "e", "o", "u", "t", ":", " ", "5", "s">>,
     \* A protocol.
     Protocol |->
        <<"P", "r", "o", "t", "o", "c", "o", "l", ":", " ", "c", "o", "n", "n", "e", "c", "t">>,
     \* An empty line.
     Blank |->
        <<>>,
     \* The service again, with another value.
     ServiceT |->
        <<"S", "e", "r", "v", "i", "c", "e", ":", " ", "T">>,
     \* The method again, with another value.
     MethodN |->
        <<"M", "e", "t", "h", "o", "d", ":", " ", "N">>,
     \* A key that differs from Method by the case of a letter.
     Lower |->
        <<"m", "e", "t", "h", "o", "d", ":", " ", "m">>,
     \* A timeout that is no duration.
     BadTimeout |->
        <<"T", "i", "m", "e", "o", "u", "t", ":", " ", "x">>,
     \* Another comment, with spaces around it.
     NameB |->
        <<" ", "#", "b", " ">>,
     \* An address with a colon in it.
     AddressPort |->
        <<"G", "R", "P", "C", " ", "g", ":", "1">>,
     \* An assertion whose operator follows the closing quote at once.
     Tight |->
        <<"t", " ", "\"", "k", "\"", "=", "=", " ", "5">>
    ]

\* The first lines of a section: the three required lines, or all but one
\* of them, or none.
Heads ==
    {<<>>, <<Line.Address, Line.Service, Line.Method>>, <<Line.Service, Line.Method>>,
     <<Line.Address, Line.Method>>, <<Line.Address, Line.Service>>}

\* The lines that follow.
LinePool ==
    {Line.Brace, Line.Captures, Line.Asserts, Line.Pair, Line.Word, Line.Blank, Line.Name,
     Line.Hash, Line.Quoted, Line.Raw, Line.Timeout, Line.Protocol, Line.ServiceT,
     Line.MethodN, Line.Lower, Line.BadTimeout, Line.NameB, Line.AddressPort, Line.Tight}

\* parseContent after the first lines head of a section; lineNo counts the
\* lines read after them.
AtContent(head) ==
    /\ doc = head
    /\ pc = "content"
    /\ requests = <<>>
    /\ parsed = <<>>
    /\ i = 0
    /\ variables = EmptyMap
    /\ jsonOutput = JNull
    /\ todo = {}
    /\ nextAssert = 0
    /\ allPassed = TRUE
    /\ outcome = "running"
    /\ failure = ""
    /\ calls = <<>>
    /\ inflight = 0
    /\ output = <<>>
    /\ lineNo = 0
    /\ sections = <<>>
    /\ currentSection = <<>>
    /\ err = NoError
    /\ content = contentLines(NewContent, head)
    /\ NoPath

InitContent == \E head \in Heads : AtContent(head)

\* Lines 119-284: one turn of the loop, on the next line of the section.
ContentLine ==
    /\ pc = "content"
    /\ content.err = NoError
    /\ lineNo < MaxLines
    /\ \E line \in LinePool :
          /\ doc' = Append(doc, line)
          /\ content' = contentLine(content, line)
    /\ lineNo' = lineNo + 1
    /\ UNCHANGED <<pathVars, pc, sections, currentSection, err, runVars>>

\* Lines 286-303, with what parseContent returns.
Returned(r) ==
    /\ content' = [content EXCEPT !.req = r.req, !.err = r.err]
    /\ requests' = IF r.err = NoError THEN <<r.req>> ELSE <<>>
    /\ err' = r.err

\* Lines 286-303: the lines are read; the body, the required fields, the
\* return.
ContentEnd ==
    /\ pc = "content"
    /\ Returned(contentEnd(content))
    /\ pc' = "done"
    /\ UNCHANGED <<pathVars, doc, lineNo, sections, currentSection, parsed, i, variables, jsonOutput,
                   todo, nextAssert, allPassed, outcome, failure, calls, inflight, output>>

NextContent ==
    \/ ContentLine
    \/ ContentEnd

SpecContent == InitContent /\ [][NextContent]_vars

(***************************************************************************)
(* EvaluateJSONPath on the paths that exist: a path is written step by     *)
(* step, a key of the object or an index of the array the steps so far     *)
(* lead to, and then evaluated.                                            *)
(***************************************************************************)

\* The documents: the response of the package's test, an array at the
\* root, arrays in arrays, and values that are zero, empty and false.
JsonDocs ==
    [
     Users |->
        JObj(<<"t", "o", "k", "e", "n">> :> JStr(<<"a", "b", "c", "-", "1", "2", "3">>) @@
        <<"u", "s", "e", "r">> :> JObj(<<"i", "d">> :> JNum(101) @@ <<"n", "a", "m", "e">>
        :> JStr(<<"A", "l">>) @@ <<"d", "e", "t", "a", "i", "l", "s">> :> JObj(<<"a", "c",
        "t", "i", "v", "e">> :> JBool(TRUE))) @@ <<"p", "e", "r", "m", "i", "s", "s", "i",
        "o", "n", "s">> :> JArr(<<JStr(<<"r", "e", "a", "d">>), JStr(<<"w", "r", "i", "t",
        "e">>)>>) @@ <<"u", "s", "e", "r", "s">> :> JArr(<<JObj(<<"i", "d">> :> JNum(1) @@
        <<"n", "a", "m", "e">> :> JStr(<<"B", "o", "b">>)), JObj(<<"i", "d">> :> JNum(2) @@
        <<"n", "a", "m", "e">> :> JStr(<<"C", "y">>))>>)),
     Arrays |->
        JArr(<<JArr(<<JNum(1), JNum(2)>>), JObj(<<"a">> :> JNull), JStr(<<"x">>)>>),
     Deep |->
        JObj(<<"a">> :> JObj(<<"b">> :> JArr(<<JArr(<<JObj(<<"c">> :> JNum(1000000))>>)>>))),
     Flat |->
        JObj(<<"n">> :> JNum(0) @@ <<"e">> :> JStr(<<>>) @@ <<"f">> :> JBool(FALSE)),
     \* Keys that begin with the root selector, beside the keys without it.
     Dollar |->
        JObj(<<"a">> :> JObj(<<"b">> :> JStr(<<"B">>) @@ <<"$", "b">> :> JStr(<<"D">>) @@
        <<"$">> :> JObj(<<"b">> :> JStr(<<"E">>))) @@ <<"k">> :> JStr(<<"L">>) @@
        <<"$", "k">> :> JStr(<<"K">>) @@ <<"l">> :> JArr(<<JObj(<<"b">> :> JStr(<<"F">>) @@
        <<"$", "b">> :> JStr(<<"G">>))>>))
    ]

\* The value the steps lead to from data, one step after the other: the
\* field of an object, the element of an array.
RECURSIVE Follow(_, _)
Follow(data, st) ==
    IF st = <<>> THEN data
    ELSE Follow(IF Head(st).kind = "key" THEN data.v[Head(st).key]
                ELSE data.v[Head(st).index + 1],
                Tail(st))

\* A key a path can name: it is not empty, does not begin with the root
\* selector and holds neither a dot nor a bracket.
PlainKey(k) ==
    /\ k # <<>>
    /\ k[1] # "$"
    /\ \A n \in 1..Len(k) : k[n] \notin {".", "[", "]"}

\* Before the first step: the document d and the path root, which is
\* empty or the root selector.
AtPath(d, root) ==
    /\ doc = <<>>
    /\ pc = "path"
    /\ requests = <<>>
    /\ parsed = <<>>
    /\ i = 0
    /\ variables = EmptyMap
    /\ jsonOutput = d
    /\ todo = {}
    /\ nextAssert = 0
    /\ allPassed = TRUE
    /\ outcome = "running"
    /\ failure = ""
    /\ calls = <<>>
    /\ inflight = 0
    /\ output = <<>>
    /\ lineNo = 0
    /\ sections = <<>>
    /\ currentSection = <<>>
    /\ err = NoError
    /\ content = NewContent
    /\ evalPath = root
    /\ evalSteps = <<>>
    /\ evalResult = NoResult
    /\ substInput = <<>>
    /\ substOutput = {}
    /\ substAgain = {}
    /\ checkAssert = <<>>
    /\ checkResult = <<>>

InitPath ==
    \E name \in DOMAIN JsonDocs : \E root \in {<<>>, <<"$">>} : AtPath(JsonDocs[name], root)

\* The path so far leads to the value reached; one more step is written:
\* a key, after a dot when the path is not empty, or an index in brackets.
Stepped(reached) ==
    \/ /\ reached.t = "obj"
       /\ \E k \in DOMAIN reached.v :
             /\ PlainKey(k)
             /\ evalPath' = IF evalPath = <<>> THEN k ELSE evalPath \o <<".">> \o k
             /\ evalSteps' = Append(evalSteps, [kind |-> "key", key |-> k, index |-> 0])
    \/ /\ reached.t = "arr"
       /\ \E n \in 0..(Len(reached.v) - 1) :
             /\ evalPath' = evalPath \o <<"[">> \o Itoa(n) \o <<"]">>
             /\ evalSteps' = Append(evalSteps, [kind |-> "index", key |-> <<>>, index |-> n])

\* One more key or index that exists.
PathStep ==
    /\ pc = "path"
    /\ Stepped(Follow(jsonOutput, evalSteps))
    /\ UNCHANGED <<evalResult, doc, pc, lineNo, sections, currentSection, err, content, runVars,
                   substInput, substOutput, substAgain, checkAssert, checkResult>>

\* EvaluateJSONPath on the document and the path.
Evaluate ==
    /\ pc = "path"
    /\ evalResult' = EvaluateJSONPath(jsonOutput, evalPath)
    /\ pc' = "done"
    /\ UNCHANGED <<evalPath, evalSteps, doc, lineNo, sections, currentSection, err, content,
                   runVars, substInput, substOutput, substAgain, checkAssert, checkResult>>

SpecPath == InitPath /\ [][PathStep \/ Evaluate]_vars

\* The path so far leads to the value reached; a last step that fails is
\* written and the path is evaluated.  The step is a bracket that is not
\* closed, an index that is no number, a key of a value that is no
\* object, an index of a value that is no array, an index below zero or
\* past the end of the array, or a key the object does not hold.
Failed(reached, sep) ==
    \E step \in
          {[kind |-> "unclosed", text |-> <<"[", "0">>],
           [kind |-> "notnumber", text |-> <<"[", "x", "]">>],
           [kind |-> "notnumber", text |-> <<"[", "]">>]}
          \cup (IF reached.t # "obj"
                THEN {[kind |-> "notobject", text |-> sep \o <<"k">>]}
                ELSE {[kind |-> "missing", text |-> sep \o <<"z", "z">>]})
          \cup (IF reached.t # "arr"
                THEN {[kind |-> "notarray", text |-> <<"[", "0", "]">>]}
                ELSE {[kind |-> "bounds", text |-> <<"[", "-", "1", "]">>],
                      [kind |-> "bounds",
                       text |-> <<"[">> \o Itoa(Len(reached.v)) \o <<"]">>]}) :
       /\ evalPath' = evalPath \o step.text
       /\ evalSteps' = Append(evalSteps, [kind |-> step.kind, key |-> step.text, index |-> 0])
       /\ evalResult' = EvaluateJSONPath(jsonOutput, evalPath \o step.text)

\* EvaluateJSONPath on a path whose last step fails.
BadStep ==
    /\ pc = "path"
    /\ jsonOutput # JInvalid
    /\ Failed(Follow(jsonOutput, evalSteps), IF evalPath = <<>> THEN <<>> ELSE <<".">>)
    /\ pc' = "done"
    /\ UNCHANGED <<doc, lineNo, sections, currentSection, err, content, runVars,
                   substInput, substOutput, substAgain, checkAssert, checkResult>>

\* The paths that exist and those that fail, on the documents and on a
\* text that is not JSON.
SpecPathErr ==
    (InitPath \/ \E p \in {<<>>, <<"a">>, <<"[", "0", "]">>} : AtPath(JInvalid, p))
    /\ [][PathStep \/ BadStep \/ Evaluate]_vars

(***************************************************************************)
(* The root selector inside a path: a step is written with the selector in *)
(* front of its key, or as a key that begins with the selector.            *)
(***************************************************************************)

\* One more step at the start of the path or after a step: `$.` or `$` and
\* then a key of the object reached, which leads to that key; or, for a
\* key `$x` of the object beside a key `x`, the text `$x`, which leads to
\* the key `x`.
MarkedStep ==
    /\ pc = "path"
    /\ evalPath = <<>> \/ evalSteps # <<>>
    /\ Follow(jsonOutput, evalSteps).t = "obj"
    /\ \E k \in DOMAIN Follow(jsonOutput, evalSteps).v :
          /\ \A n \in 1..Len(k) : k[n] \notin {".", "[", "]"}
          /\ \/ \E marker \in {<<"$", ".">>, <<"$">>} :
                   /\ evalPath' = evalPath \o (IF evalPath = <<>> THEN <<>> ELSE <<".">>)
                                  \o marker \o k
                   /\ evalSteps' = Append(evalSteps, [kind |-> "key", key |-> k, index |-> 0])
             \/ /\ Len(k) > 1
                /\ k[1] = "$"
                /\ Tail(k) \in DOMAIN Follow(jsonOutput, evalSteps).v
                /\ evalPath' = evalPath \o (IF evalPath = <<>> THEN <<>> ELSE <<".">>) \o k
                /\ evalSteps' = Append(evalSteps,
                                       [kind |-> "key", key |-> Tail(k), index |-> 0])
    /\ UNCHANGED <<evalResult, doc, pc, lineNo, sections, currentSection, err, content, runVars,
                   substInput, substOutput, substAgain, checkAssert, checkResult>>

\* The paths that exist, with root selectors inside them.
SpecRoot == InitPath /\ [][PathStep \/ MarkedStep \/ Evaluate]_vars

(***************************************************************************)
(* Substitute on its own: a text and a store, and the call made once and   *)
(* then again on what it returned.                                         *)
(***************************************************************************)

\* The texts and the stores the call is given: the cases of TestSubstitute
\* (no placeholder, one, several, an unknown name, a mix, no store), braces
\* around a placeholder, half a placeholder, and values that hold a
\* placeholder, a key, or nothing.
Subst ==
    [Texts |-> {<<>>,
                <<"p">>,
                <<"{", "{", "a", "}", "}">>,
                <<"{", "{", "a", "}", "}", "-", "{", "{", "b", "}", "}", "{", "{", "a", "}", "}">>,
                <<"{", "{", "c", "}", "}">>,
                <<"x", "{", "{", "a", "}", "}", "{", "{", "c", "}", "}">>,
                <<"{", "{", "{", "{", "a", "}", "}", "}", "}">>,
                <<"{", "a", "}">>,
                <<"{", "{", "a", "}">>},
     Stores |-> {EmptyMap,
                 MapPut(EmptyMap, <<"a">>, <<"A">>),
                 MapPut(MapPut(EmptyMap, <<"a">>, <<"A">>), <<"b">>, <<"B">>),
                 MapPut(MapPut(EmptyMap, <<"a">>, <<"{", "{", "b", "}", "}">>), <<"b">>, <<"B">>),
                 MapPut(EmptyMap, <<"a">>, <<"a">>),
                 MapPut(EmptyMap, <<"a">>, <<>>),
                 MapPut(EmptyMap, <<"a">>, <<"{", "{", "a", "}", "}">>)}]

\* The state before a call of Substitute or of Check: the place p, the
\* store v, the response d, the text s and the assertion a.
AtCall(p, v, d, s, a) ==
    /\ doc = <<>>
    /\ pc = p
    /\ requests = <<>>
    /\ parsed = <<>>
    /\ i = 0
    /\ variables = v
    /\ jsonOutput = d
    /\ todo = {}
    /\ nextAssert = 0
    /\ allPassed = TRUE
    /\ outcome = "running"
    /\ failure = ""
    /\ calls = <<>>
    /\ inflight = 0
    /\ output = <<>>
    /\ lineNo = 0
    /\ sections = <<>>
    /\ currentSection = <<>>
    /\ err = NoError
    /\ content = NewContent
    /\ evalPath = <<>>
    /\ evalSteps = <<>>
    /\ evalResult = NoResult
    /\ substInput = s
    /\ substOutput = {}
    /\ substAgain = {}
    /\ checkAssert = a
    /\ checkResult = <<>>

\* Substitute(substInput, variables).
SubstituteOnce ==
    /\ pc = "template"
    /\ substOutput' = Substitute(substInput, variables)
    /\ pc' = "once"
    /\ UNCHANGED <<doc, scanVars, runVars, evalPath, evalSteps, evalResult, substInput,
                   substAgain, checkAssert, checkResult>>

\* Substitute on a text the first call returned, with the same store.
SubstituteAgain ==
    /\ pc = "once"
    /\ substAgain' = UNION {Substitute(r, variables) : r \in substOutput}
    /\ pc' = "done"
    /\ UNCHANGED <<doc, scanVars, runVars, evalPath, evalSteps, evalResult, substInput,
                   substOutput, checkAssert, checkResult>>

\* Substitute on every text and every store of Subst.
SpecSubst ==
    (\E s \in Subst.Texts, v \in Subst.Stores : AtCall("template", v, JNull, s, <<>>))
    /\ [][SubstituteOnce \/ SubstituteAgain]_vars

(***************************************************************************)
(* Check on its own: one assertion and one response.                       *)
(***************************************************************************)

\* The assertions and the responses Check is given: the path kind and
\* another kind; keys that lead to a string, to a number, to an empty
\* string, to nothing, and a key with an unclosed bracket; the three
\* operators and one that is none of them; values that are equal to,
\* part of and different from what the keys lead to; the responses of
\* JsonDocs and a response that is not JSON.
Checks ==
    [Types |-> {JsonpathType, <<"s", "t", "a", "t", "u", "s">>},
     Keys |-> {<<"t", "o", "k", "e", "n">>,
               <<"$", ".", "u", "s", "e", "r", ".", "i", "d">>,
               <<"e">>,
               <<"u", "s", "e", "r", "s", "[", "0">>},
     Operators |-> {OpEq, OpNe, OpContains, <<"<">>},
     Values |-> {<<"a", "b", "c", "-", "1", "2", "3">>, <<"a", "b", "c">>, <<"1", "0", "1">>, <<>>},
     Responses |-> {JsonDocs.Users, JsonDocs.Flat, JInvalid}]

\* Check(checkAssert, jsonOutput).
CheckCall ==
    /\ pc = "check"
    /\ checkResult' = Check(checkAssert, jsonOutput)
    /\ pc' = "done"
    /\ UNCHANGED <<doc, scanVars, runVars, evalPath, evalSteps, evalResult, substInput,
                   substOutput, substAgain, checkAssert>>

\* Check on every assertion and every response of Checks.
SpecCheck ==
    (\E aType \in Checks.Types, key \in Checks.Keys, op \in Checks.Operators,
        val \in Checks.Values, d \in Checks.Responses :
        AtCall("check", EmptyMap, d, <<>>,
               [Type |-> aType, Key |-> key, Operator |-> op, Value |-> val]))
    /\ [][CheckCall]_vars

(***************************************************************************)
(* The run of the command: what the transport sees, what the loop reports  *)
(* and what the store holds.                                               *)
(***************************************************************************)

\* The steps whose failure is a resolution, codec or transport error.
FatalSteps == {"resolve", "encode", "call", "decode"}

\* Every capture and every assertion of record r has been evaluated.
Evaluated(r) ==
    /\ \A n \in DOMAIN parsed[r].Captures :
          \E k \in 1..Len(output) :
             output[k].index = r /\ output[k].what = "capture" /\ output[k].name = n
    /\ \A a \in 1..Len(parsed[r].Asserts) :
          \E k \in 1..Len(output) :
             output[k].index = r /\ output[k].what = "assert" /\ output[k].name = a

\* C1: once an assertion of record i has failed, the transport has been
\* invoked exactly i times and stays so, the loop never reaches a record
\* after i, and the run cannot succeed: when it ends, it ends with the error
\* of the failed assertions.
C1_FailedAssertionStopsRun ==
    /\ [](\A k \in 1..Len(output) :
             (output[k].what = "assert" /\ ~output[k].ok) =>
                /\ Len(calls) = output[k].index
                /\ i = output[k].index
                /\ \A c \in 1..Len(calls) : calls[c].index = c
                /\ outcome # "ok"
                /\ (pc = "done" => outcome = "error" /\ failure = "asserts"))
    /\ ((\E k \in 1..Len(output) : output[k].what = "assert" /\ ~output[k].ok)
           ~> (pc = "done" /\ outcome = "error" /\ failure = "asserts"))

\* A run of several records that an assertion of an earlier record stopped.
C1_Witness ==
    /\ pc = "done"
    /\ failure = "asserts"
    /\ i < Len(requests)
    /\ Len(calls) = i
    /\ \E k \in 1..Len(output) : output[k].what = "assert" /\ output[k].ok

\* C2: when a record is dispatched, a header value or a body that is the
\* placeholder of a stored variable x is dispatched as the value the store
\* holds for x, which is the value of the last successful capture of x.
C2_ChainedValueIsDispatched ==
    [][Len(calls') = Len(calls) + 1 =>
          \A x \in DOMAIN variables :
             /\ \A K \in DOMAIN parsed[i].Headers :
                   parsed[i].Headers[K] = Placeholder(x) =>
                      calls'[Len(calls')].headers[K] = variables[x]
             /\ parsed[i].Body = Placeholder(x) => calls'[Len(calls')].body = variables[x]]_vars

\* C3: when the resolution, a conversion or the call of record i fails, the
\* run is over with an error, nothing of record i has been captured or
\* asserted, the transport has seen record i at most once and no record
\* after it, and the failing step leaves the store alone; the store changes
\* only with a capture reported for the current record, after its call.
C3_FatalErrorsAreTerminal ==
    /\ [](failure \in FatalSteps =>
             /\ pc = "done"
             /\ outcome = "error"
             /\ inflight = 0
             /\ \A k \in 1..Len(output) : output[k].index < i
             /\ Len(calls) = (IF failure \in {"call", "decode"} THEN i ELSE i - 1))
    /\ [](\A a, b \in 1..Len(calls) : calls[a].index = calls[b].index => a = b)
    /\ [][(failure = "" /\ failure' \in FatalSteps) =>
             variables' = variables /\ output' = output /\ calls' = calls]_vars
    /\ [][variables' # variables =>
             /\ Len(calls) = i
             /\ inflight = 0
             /\ Len(output') = Len(output) + 1
             /\ output'[Len(output')].index = i
             /\ output'[Len(output')].what = "capture"]_vars

\* The call of the second of three records failed, with variables stored.
C3_Witness ==
    /\ pc = "done"
    /\ failure = "call"
    /\ i = 2
    /\ Len(requests) = 3
    /\ Len(calls) = 2
    /\ variables # EmptyMap

\* C4: a capture that fails leaves the store, the loop and the outcome as
\* they are; of a record with a failed capture every capture and every
\* assertion is evaluated; and a run that ends with the error of the
\* assertions has a failed assertion in its last record.
C4_FailedCaptureIsSkipped ==
    /\ [](pc = "done" =>
             \A k \in 1..Len(output) :
                (output[k].what = "capture" /\ ~output[k].ok) => Evaluated(output[k].index))
    /\ []((pc = "done" /\ failure = "asserts") =>
             \E k \in 1..Len(output) :
                output[k].index = i /\ output[k].what = "assert" /\ ~output[k].ok)
    /\ [][(/\ Len(output') = Len(output) + 1
           /\ output'[Len(output')].what = "capture"
           /\ ~output'[Len(output')].ok) =>
             variables' = variables /\ pc' = pc /\ outcome' = outcome /\ failure' = failure]_vars

\* A run that succeeded although a capture failed for a variable the store
\* held.
C4_Witness ==
    /\ pc = "done"
    /\ outcome = "ok"
    /\ \E k \in 1..Len(output) :
          /\ output[k].what = "capture"
          /\ ~output[k].ok
          /\ output[k].name \in DOMAIN variables

\* C5: the store is empty when the run starts; no step removes a name from
\* it, and a step that adds a name or changes its value is the successful
\* capture of that name in the current record.
C5_StoreIsNeverRolledBack ==
    /\ [](pc = "start" => variables = EmptyMap)
    /\ [][/\ DOMAIN variables \subseteq DOMAIN variables'
          /\ \A n \in DOMAIN variables' :
                (n \notin DOMAIN variables \/ variables'[n] # variables[n]) =>
                   /\ Len(output') = Len(output) + 1
                   /\ output'[Len(output')] =
                         [index |-> i, what |-> "capture", name |-> n, ok |-> TRUE]]_vars

\* A run that failed after a capture overwrote a variable: the store holds
\* the later value.
C5_Witness ==
    /\ pc = "done"
    /\ outcome = "error"
    /\ failure \in {"asserts", "call", "resolve"}
    /\ <<"x">> \in DOMAIN variables
    /\ <<"y">> \in DOMAIN variables
    /\ variables[<<"x">>] = <<"{", "{", "y", "}", "}">>

\* C6: a run whose file was parsed and whose protos were loaded returns nil
\* exactly when the transport has seen every record, no resolution, codec
\* or transport error occurred and every assertion evaluated has passed.
C6_SuccessIffAllPassed ==
    (pc = "done" /\ failure \notin {"parse", "protos"}) =>
        (outcome = "ok" <=>
            /\ Len(calls) = Len(parsed)
            /\ failure \notin FatalSteps
            /\ \A k \in 1..Len(output) : output[k].what = "assert" => output[k].ok)

\* A successful run of several records, one of them without assertions.
C6_Witness ==
    /\ pc = "done"
    /\ outcome = "ok"
    /\ Len(parsed) > 1
    /\ \E r \in 1..Len(parsed) : Len(parsed[r].Asserts) = 0
    /\ \E r \in 1..Len(parsed) : Len(parsed[r].Asserts) > 0

\* C7: at most one call is in flight; the transport sees the records in the
\* order of the file, one call each; what the loop reports is in that order
\* and only of records whose call has returned; every record before the
\* current one is evaluated in full; and no record after the current one
\* has been rewritten.
C7_StrictlySequential ==
    /\ inflight \in {0, 1}
    /\ \A c \in 1..Len(calls) : calls[c].index = c
    /\ Len(calls) \in {i - 1, i} \/ pc \in {"start", "done"}
    /\ (inflight = 1 <=> pc = "inflight")
    /\ (pc \in {"substitute", "resolve", "protocol", "encode", "call"} => Len(calls) = i - 1)
    /\ \A k \in 1..Len(output) :
          /\ output[k].index <= Len(calls)
          /\ (inflight = 1 => output[k].index < Len(calls))
          /\ \A m \in 1..k : output[m].index <= output[k].index
    /\ (pc \notin {"start", "done"} => \A r \in 1..(i - 1) : Evaluated(r))
    /\ \A r \in 1..Len(requests) : r > i => requests[r] = parsed[r]

\* The third call is in flight; the second record was rewritten before it
\* was sent.
C7_Witness ==
    /\ Len(calls) = 3
    /\ inflight = 1
    /\ requests[2] # parsed[2]
    /\ Len(output) > 3

\* C8: the loop rewrites a record only before its resolution, to the
\* address, the body and the header values Substitute makes of the parsed
\* ones with the store of that moment; every other field stays as parsed,
\* the header keys included, and the transport is given the record so
\* rewritten.
C8_OnlyAddressBodyAndHeaderValues ==
    /\ [](\A r \in 1..Len(requests) :
             /\ requests[r].Name = parsed[r].Name
             /\ requests[r].Service = parsed[r].Service
             /\ requests[r].Method = parsed[r].Method
             /\ requests[r].Protocol = parsed[r].Protocol
             /\ requests[r].Timeout = parsed[r].Timeout
             /\ requests[r].Captures = parsed[r].Captures
             /\ requests[r].Asserts = parsed[r].Asserts
             /\ DOMAIN requests[r].Headers = DOMAIN parsed[r].Headers)
    /\ [](\A c \in 1..Len(calls) :
             /\ calls[c].service = parsed[c].Service
             /\ calls[c].method = parsed[c].Method
             /\ calls[c].timeout = parsed[c].Timeout
             /\ calls[c].protocol = ToLower(parsed[c].Protocol)
             /\ calls[c].headers = requests[c].Headers
             /\ calls[c].body = requests[c].Body)
    /\ [][(pc # "start" /\ requests' # requests) =>
             /\ pc = "substitute"
             /\ \A r \in 1..Len(requests) : r # i => requests'[r] = requests[r]
             /\ requests'[i].Address \in Substitute(parsed[i].Address, variables)
             /\ requests'[i].Body \in Substitute(parsed[i].Body, variables)
             /\ \A K \in DOMAIN parsed[i].Headers :
                   requests'[i].Headers[K] \in Substitute(parsed[i].Headers[K], variables)]_vars

\* A record with placeholders in its name, a header key, a capture path and
\* an expected value was sent with its header value and its body rewritten.
C8_Witness ==
    \E c \in 1..Len(calls) :
        /\ parsed[c].Name = <<"n", "{", "{", "x", "}", "}">>
        /\ calls[c].headers[<<"K", "{", "{", "x", "}", "}">>] = <<"A">>
        /\ calls[c].body = <<"B">>
        /\ calls[c].address = <<"h", "/", "A">>

(***************************************************************************)
(* The sections of a file and the records made of them.                    *)
(***************************************************************************)

\* C9: when ParseMultiple returns without an error, the records it returns
\* are, in the order of the file, what parseContent makes of each segment
\* taken alone, a segment being a longest run of one or more lines of the
\* file without a separator line: as many records as segments, the k-th
\* from the lines of the k-th segment and from nothing else.
C9_OneRecordForEachSegment ==
    (pc = "done" /\ err = NoError) =>
        LET IsSeparator(n) == TrimSpace(doc[n]) = Separator
            Starts == {s \in 1..Len(doc) : ~IsSeparator(s) /\ (s = 1 \/ IsSeparator(s - 1))}
            End(s) == CHOOSE e \in s..Len(doc) :
                         /\ \A n \in s..e : ~IsSeparator(n)
                         /\ (e = Len(doc) \/ IsSeparator(e + 1))
            Start(k) == CHOOSE s \in Starts : Cardinality({u \in Starts : u < s}) = k - 1
        IN  /\ Len(requests) = Cardinality(Starts)
            /\ \A k \in 1..Len(requests) :
                  requests[k] = parseContent(SubSeq(doc, Start(k), End(Start(k)))).req

\* Two records of a file with a separator before the first segment or
\* after the last, told apart by their names and addresses.
C9_Witness ==
    /\ pc = "done"
    /\ err = NoError
    /\ Len(requests) = 2
    /\ Len(doc) > 0
    /\ (TrimSpace(doc[1]) = Separator \/ TrimSpace(doc[Len(doc)]) = Separator)
    /\ requests[1].Name = <<"a">>
    /\ requests[2].Name = <<>>
    /\ requests[2].Address = <<"g">>
    /\ DOMAIN requests[2].Headers = {}

\* C10: a file whose lines are all separator lines or blank lines is
\* refused with the error "no requests found in file".
C10_NoRequestsFound ==
    (pc = "done" /\ \A n \in 1..Len(doc) : TrimSpace(doc[n]) \in {<<>>, Separator}) =>
        err = NoRequestsFound

\* C11: a record parsed from a section without a Protocol line has the
\* protocol "grpc-web", one parsed from a section without a Timeout line has
\* the timeout of 30 seconds, and one parsed from a section without a line
\* that starts with "{" has the body "{}"; the body is "{}" whenever no body
\* line was collected, and the collected lines joined by newlines otherwise.
C11_DefaultsWhenOmitted ==
    (pc = "done" /\ err = NoError) =>
        LET Key(line) == TrimSpace(SubSeq(line, 1, Index(line, <<":">>) - 1))
            Keyed(k) == \E n \in 1..Len(doc) : Index(doc[n], <<":">>) # 0 /\ Key(doc[n]) = k
        IN  /\ Len(requests) = 1
            /\ ~Keyed(<<"P", "r", "o", "t", "o", "c", "o", "l">>)
                  => requests[1].Protocol = <<"g", "r", "p", "c", "-", "w", "e", "b">>
            /\ ~Keyed(<<"T", "i", "m", "e", "o", "u", "t">>) => requests[1].Timeout = 30 * 1000
            /\ (\A n \in 1..Len(doc) : ~HasPrefix(TrimSpace(doc[n]), <<"{">>))
                  => requests[1].Body = <<"{", "}">>
            /\ content.bodyLines = <<>> => requests[1].Body = <<"{", "}">>
            /\ content.bodyLines # <<>> => requests[1].Body = JoinLines(content.bodyLines)

\* A record with a name, a header and nothing else after its three lines
\* has the three defaults.
C11_Witness ==
    /\ pc = "done"
    /\ err = NoError
    /\ doc = <<Line.Address, Line.Service, Line.Method, Line.Name, Line.Pair>>
    /\ requests[1].Protocol = <<"g", "r", "p", "c", "-", "w", "e", "b">>
    /\ requests[1].Timeout = 30000
    /\ requests[1].Body = <<"{", "}">>
    /\ requests[1].Headers = (<<"x">> :> <<"a", ":", "b">>)

\* C12: when the lines of a section are all read, an empty address fails
\* the parse with the error that names the GRPC line, an empty service
\* (the address being there) with the error that names Service, an empty
\* method (the other two being there) with the error that names Method, and
\* nothing is returned with the error; a record returned without error has
\* an address, a service and a method.
C12_MissingRequiredField ==
    /\ [](pc = "done" /\ err = NoError
             => /\ Len(requests) = 1
                /\ requests[1].Address # <<>>
                /\ requests[1].Service # <<>>
                /\ requests[1].Method # <<>>)
    /\ [][(pc = "content" /\ pc' = "done" /\ content.err = NoError)
             => /\ (content.req.Address = <<>> \/ content.req.Service = <<>>
                                               \/ content.req.Method = <<>>)
                      => (err' # NoError /\ requests' = <<>>)
                /\ content.req.Address = <<>>
                      => err' = <<"m", "i", "s", "s", "i", "n", "g", " ", "r", "e", "q", "u", "i",
                                  "r", "e", "d", " ", "'", "G", "R", "P", "C", " ", "<", "a", "d",
                                  "d", "r", "e", "s", "s", ">", "'", " ", "l", "i", "n", "e">>
                /\ (content.req.Address # <<>> /\ content.req.Service = <<>>)
                      => err' = <<"m", "i", "s", "s", "i", "n", "g", " ", "r", "e", "q", "u", "i",
                                  "r", "e", "d", " ", "'", "S", "e", "r", "v", "i", "c", "e", ":",
                                  "'", " ", "f", "i", "e", "l", "d">>
                /\ (content.req.Address # <<>> /\ content.req.Service # <<>>
                                               /\ content.req.Method = <<>>)
                      => err' = <<"m", "i", "s", "s", "i", "n", "g", " ", "r", "e", "q", "u", "i",
                                  "r", "e", "d", " ", "'", "M", "e", "t", "h", "o", "d", ":", "'",
                                  " ", "f", "i", "e", "l", "d">>]_vars

\* A section with an address, a service, a header and a body but no Method
\* line: the method error, and no record.
C12_Witness ==
    /\ pc = "done"
    /\ doc = <<Line.Address, Line.Service, Line.Lower, Line.Brace>>
    /\ content.req.Address = <<"h">>
    /\ content.req.Service = <<"S">>
    /\ content.req.Method = <<>>
    /\ requests = <<>>
    /\ err = <<"m", "i", "s", "s", "i", "n", "g", " ", "r", "e", "q", "u", "i", "r", "e", "d", " ",
               "'", "M", "e", "t", "h", "o", "d", ":", "'", " ", "f", "i", "e", "l", "d">>

\* C13: when parseContent refuses one of the sections of a file (an
\* address, a service or a method is missing, or a Timeout value is no
\* duration), ParseMultiple returns an error, the one of the first section
\* refused, and no record, however many of the other sections are valid.
C13_StructuralErrorAbortsDocument ==
    pc = "done" =>
        LET Refused == {k \in 1..Len(sections) : parseContent(sections[k]).err # NoError}
        IN  Refused # {} =>
               /\ requests = <<>>
               /\ err # NoError
               /\ \E k \in Refused :
                     /\ \A j \in Refused : k <= j
                     /\ err = RequestError(k, parseContent(sections[k]).err)

\* A valid section, then one whose Timeout is no duration: the error of
\* section 2 and no record.
C13_Witness ==
    /\ pc = "done"
    /\ Len(sections) = 2
    /\ sections[1] = Item.A
    /\ sections[2] = Item.BadTimeout
    /\ parseContent(sections[1]).err = NoError
    /\ requests = <<>>
    /\ err = <<"r", "e", "q", "u", "e", "s", "t", " ", "2", ":", " ", "i", "n", "v", "a", "l", "i",
               "d", " ", "t", "i", "m", "e", "o", "u", "t", " ", "d", "u", "r", "a", "t", "i", "o",
               "n", " ", "\"", "x", "\"", ":", " ", "t", "i", "m", "e", ":", " ", "i", "n", "v",
               "a", "l", "i", "d", " ", "d", "u", "r", "a", "t", "i", "o", "n", " ", "\"", "x",
               "\"">>

\* C14: a [Captures] or [Asserts] line read after the body has begun ends
\* the body at the line before it: the line switches the section and is not
\* collected, no line collected for the body is a marker, so the body of
\* the record holds no marker, and the lines after the marker are the
\* captures or the assertions of the same record and leave its body alone.
C14_MarkerEndsBody ==
    /\ [](/\ \A n \in 1..Len(content.bodyLines) :
                TrimSpace(content.bodyLines[n]) \notin {Line.Captures, Line.Asserts}
          /\ (pc = "done" /\ err = NoError)
                => /\ ~Contains(requests[1].Body, Line.Captures)
                   /\ ~Contains(requests[1].Body, Line.Asserts))
    /\ [][(pc = "content" /\ pc' = "content" /\ content.bodyLines # <<>>)
             => LET line == doc'[Len(doc')]
                IN  /\ (content.currentSection = "Body" /\ line = Line.Captures)
                          => content' = [content EXCEPT !.currentSection = "Captures"]
                    /\ (content.currentSection = "Body" /\ line = Line.Asserts)
                          => content' = [content EXCEPT !.currentSection = "Asserts"]
                    /\ (content.currentSection = "Captures" /\ line = Line.Pair)
                          => content' = [content EXCEPT !.req.Captures =
                                            MapPut(@, <<"x">>, <<"a", ":", "b">>)]
                    /\ (content.currentSection = "Asserts" /\ line = Line.Quoted)
                          => content' = [content EXCEPT !.req.Asserts =
                                            Append(@, [Type |-> <<"j", "s", "o", "n", "p", "a",
                                                                  "t", "h">>,
                                                       Key |-> <<"a", " ", "b">>,
                                                       Operator |-> <<"=", "=">>,
                                                       Value |-> <<"v">>])]]_vars

\* A body of one line, then [Captures] and a capture: the record has the
\* body "{" and the capture.
C14_Witness ==
    /\ pc = "done"
    /\ err = NoError
    /\ doc = <<Line.Address, Line.Service, Line.Method, Line.Brace, Line.Captures, Line.Pair>>
    /\ requests[1].Body = <<"{">>
    /\ requests[1].Captures = (<<"x">> :> <<"a", ":", "b">>)

\* C15, as stated: a [Captures] or [Asserts] line switches the section only
\* while no section has begun; once the body has begun the section stays
\* Body, and a marker line read then is collected for the body.
C15_MarkersOnlyInHeaderMode ==
    [][(pc = "content" /\ pc' = "content")
          => LET line == doc'[Len(doc')]
                 IsMarker == TrimSpace(line) \in {Line.Captures, Line.Asserts}
             IN  /\ (IsMarker /\ content.currentSection # "")
                       => content'.currentSection = content.currentSection
                 /\ content.currentSection = "Body" => content'.currentSection = "Body"
                 /\ (IsMarker /\ content.currentSection = "Body")
                       => content'.bodyLines = Append(content.bodyLines, line)]_vars

\* C15, amended: a [Captures] or [Asserts] line switches the section to
\* Captures or Asserts in whatever section it is read (none, Body, Captures
\* or Asserts) and changes nothing else, so it is never collected for the
\* body; the Body section is left by a marker line and by no other line.
C15_MarkersSwitchInEveryMode ==
    [][(pc = "content" /\ pc' = "content")
          => LET line == doc'[Len(doc')]
             IN  /\ TrimSpace(line) = Line.Captures
                       => content' = [content EXCEPT !.currentSection = "Captures"]
                 /\ TrimSpace(line) = Line.Asserts
                       => content' = [content EXCEPT !.currentSection = "Asserts"]
                 /\ (content.currentSection = "Body"
                        /\ TrimSpace(line) \notin {Line.Captures, Line.Asserts})
                       => content'.currentSection = "Body"]_vars

\* A body, then [Asserts], then [Captures]: the section has gone from Body
\* to Asserts to Captures and the body is the one line before the markers.
C15_Witness ==
    /\ pc = "done"
    /\ err = NoError
    /\ doc = <<Line.Address, Line.Service, Line.Method, Line.Brace, Line.Asserts, Line.Captures>>
    /\ content.currentSection = "Captures"
    /\ content.bodyLines = <<Line.Brace>>
    /\ requests[1].Body = <<"{">>

\* C16, as stated: the name of a record is the trimmed text of the first
\* comment line of its section, whatever that line holds and whatever
\* comment lines follow it.
C16_NameIsFirstComment ==
    LET IsComment(n) == HasPrefix(TrimSpace(doc[n]), <<"#">>)
        Text(n) == TrimSpace(TrimPrefix(TrimSpace(doc[n]), <<"#">>))
        Comments == {n \in 1..Len(doc) : IsComment(n)}
    IN  (pc \in {"content", "done"} /\ Comments # {})
           => content.req.Name = Text(MinOf(Comments))

\* C16, amended: the name of a record is the trimmed text of the first
\* comment line of its section that has text after its "#", in whatever
\* section that line is read, and is empty when there is none; once the
\* name is not empty no line changes it, and a comment line changes nothing
\* but the name.
C16_NameIsFirstCommentWithText ==
    /\ [](LET IsComment(n) == HasPrefix(TrimSpace(doc[n]), <<"#">>)
              Text(n) == TrimSpace(TrimPrefix(TrimSpace(doc[n]), <<"#">>))
              Named == {n \in 1..Len(doc) : IsComment(n) /\ Text(n) # <<>>}
          IN  pc \in {"content", "done"}
                 => content.req.Name = IF Named = {} THEN <<>> ELSE Text(MinOf(Named)))
    /\ [][(pc = "content" /\ pc' = "content")
             => /\ content.req.Name # <<>> => content'.req.Name = content.req.Name
                /\ HasPrefix(TrimSpace(doc'[Len(doc')]), <<"#">>)
                      => content' = [content EXCEPT !.req.Name = content'.req.Name]]_vars

\* A comment without text, a body, then a comment with text: the name is
\* the text of the second comment, read in the Body section.
C16_Witness ==
    /\ pc = "done"
    /\ err = NoError
    /\ doc = <<Line.Address, Line.Service, Line.Method, Line.Hash, Line.Brace, Line.NameB>>
    /\ content.currentSection = "Body"
    /\ requests[1].Name = <<"b">>

\* C17: while no section has begun, a line with a colon that is no
\* comment, no marker, no first line of a body and no address line is split
\* at its first colon into a key and a value, both trimmed (the value keeps
\* its own colons); the key Service, Method or Protocol, written exactly so,
\* sets that field to the value, the key Timeout sets the timeout to the
\* duration the value denotes, and any other key, one that differs from
\* these by case included, adds the header key -> value; nothing else of
\* the record changes.
C17_KeyValueLines ==
    [][(pc = "content" /\ pc' = "content" /\ content.currentSection = "")
          => LET line == doc'[Len(doc')]
                 Colons == {c \in 1..Len(line) : line[c] = ":"}
                 key == TrimSpace(SubSeq(line, 1, MinOf(Colons) - 1))
                 value == TrimSpace(SubSeq(line, MinOf(Colons) + 1, Len(line)))
             IN  (/\ Colons # {}
                  /\ ~HasPrefix(TrimSpace(line), <<"#">>)
                  /\ ~HasPrefix(TrimSpace(line), <<"{">>)
                  /\ TrimSpace(line) \notin {Line.Captures, Line.Asserts}
                  /\ ~HasPrefix(line, <<"G", "R", "P", "C", " ">>))
                 => CASE key = <<"S", "e", "r", "v", "i", "c", "e">>
                           -> content' = [content EXCEPT !.req.Service = value]
                      [] key = <<"M", "e", "t", "h", "o", "d">>
                           -> content' = [content EXCEPT !.req.Method = value]
                      [] key = <<"P", "r", "o", "t", "o", "c", "o", "l">>
                           -> content' = [content EXCEPT !.req.Protocol = value]
                      [] key = <<"T", "i", "m", "e", "o", "u", "t">>
                           -> IF value = <<"5", "s">>
                              THEN content' = [content EXCEPT !.req.Timeout = 5000]
                              ELSE ParseDuration(value).ok
                                      => content' = [content EXCEPT !.req.Timeout =
                                                        ParseDuration(value).val]
                      [] OTHER
                           -> content' = [content EXCEPT !.req.Headers =
                                             [k \in DOMAIN @ \cup {key} |->
                                                 IF k = key THEN value ELSE @[k]]]]_vars

\* A key in lower case, a value with a colon and a second Service line:
\* two headers, the service of the later line, the method of the head.
C17_Witness ==
    /\ pc = "done"
    /\ err = NoError
    /\ doc = <<Line.Address, Line.Service, Line.Method, Line.Lower, Line.Pair, Line.ServiceT>>
    /\ requests[1].Headers = (<<"m", "e", "t", "h", "o", "d">> :> <<"m">>
                              @@ <<"x">> :> <<"a", ":", "b">>)
    /\ requests[1].Service = <<"T">>
    /\ requests[1].Method = <<"M">>

C19_AssertLineGrammar ==
    [][(pc = "content" /\ pc' = "content" /\ content.currentSection = "Asserts")
          => LET Spaces(s) == {n \in 1..Len(s) : s[n] = " "}
                 Quotes(s) == {n \in 1..Len(s) : s[n] = "\""}
                 Between(s, from, to) == SubSeq(s, from + 1, to - 1)
                 \* The assertion is appended.
                 Appended(kind, path, operator, value) ==
                    content' = [content EXCEPT !.req.Asserts =
                                   Append(@, [Type |-> kind, Key |-> path,
                                              Operator |-> operator, Value |-> value])]
                 \* v is what follows the operator, without the spaces around it.
                 Value(kind, path, operator, v) ==
                    IF HasPrefix(v, <<"\"">>)
                    THEN Quotes(Tail(v)) # {}
                            => Appended(kind, path, operator,
                                        Between(v, 1, 1 + MinOf(Quotes(Tail(v)))))
                    ELSE v # <<>> => Appended(kind, path, operator, v)
                 \* o follows the closing quote of the path, without the
                 \* spaces around it.
                 Operator(kind, path, o) ==
                    Spaces(o) # {}
                       => Value(kind, path, Between(o, 0, MinOf(Spaces(o))),
                                TrimSpace(Between(o, MinOf(Spaces(o)), Len(o) + 1)))
                 \* p follows the opening quote of the path.
                 Path(kind, p) ==
                    (Quotes(p) # {} /\ HasPrefix(Between(p, MinOf(Quotes(p)), Len(p) + 1), <<" ">>))
                       => Operator(kind, Between(p, 0, MinOf(Quotes(p))),
                                   TrimSpace(Between(p, MinOf(Quotes(p)), Len(p) + 1)))
                 \* k follows the kind, without the spaces around it.
                 Kind(kind, k) == HasPrefix(k, <<"\"">>) => Path(kind, Tail(k))
                 \* t is the line without the spaces around it.
                 Trimmed(t) ==
                    (~HasPrefix(t, <<"#">>) /\ Spaces(t) # {})
                       => Kind(Between(t, 0, MinOf(Spaces(t))),
                               TrimSpace(Between(t, MinOf(Spaces(t)), Len(t) + 1)))
             IN  Trimmed(TrimSpace(doc'[Len(doc')]))]_vars

\* A line with a value that is not quoted, then one with a quoted value
\* and text after it: the two assertions, in that order.
C19_Witness ==
    /\ pc = "done"
    /\ err = NoError
    /\ doc = <<Line.Address, Line.Service, Line.Method, Line.Asserts, Line.Raw, Line.Quoted>>
    /\ requests[1].Asserts =
          << [Type |-> <<"t">>, Key |-> <<"k">>, Operator |-> <<"!", "=">>,
              Value |-> <<"5", " ", "6">>],
             [Type |-> <<"j", "s", "o", "n", "p", "a", "t", "h">>, Key |-> <<"a", " ", "b">>,
              Operator |-> <<"=", "=">>, Value |-> <<"v">>] >>

\* C20: for a document that is valid JSON and a path written, with or
\* without the root selector, from keys and bracketed indices that exist
\* one after the other from the root, EvaluateJSONPath returns no error
\* and the text of the value the keys and indices lead to, applied from
\* left to right.
C20_ExistingPathIsFollowed ==
    (pc = "done" /\ evalResult # NoResult) =>
        /\ evalResult.ok
        /\ evalResult.err = <<>>
        /\ evalResult.val = Sprint(Follow(jsonOutput, evalSteps))

\* users[1].name in the document of the test: the name of the second
\* user.
C20_Witness ==
    /\ pc = "done"
    /\ jsonOutput = JsonDocs.Users
    /\ evalPath = <<"u", "s", "e", "r", "s", "[", "1", "]", ".", "n", "a", "m", "e">>
    /\ evalSteps = << [kind |-> "key", key |-> <<"u", "s", "e", "r", "s">>, index |-> 0],
                      [kind |-> "index", key |-> <<>>, index |-> 1],
                      [kind |-> "key", key |-> <<"n", "a", "m", "e">>, index |-> 0] >>
    /\ evalResult = [ok |-> TRUE, val |-> <<"C", "y">>, err |-> <<>>]

\* C21: EvaluateJSONPath returns an error and the empty string when the
\* text is not JSON, and when the path, after steps that exist, has a
\* bracket that is not closed, an index that is no number, a key applied
\* to a value that is no object, an index applied to a value that is no
\* array, an index below zero or not below the length of the array, or a
\* key the object does not hold; the error tells which.
C21_FailingPathIsAnError ==
    LET last == evalSteps[Len(evalSteps)]
        Is(kind) == jsonOutput # JInvalid /\ evalSteps # <<>> /\ last.kind = kind
        Error(text) == /\ ~evalResult.ok
                       /\ evalResult.val = <<>>
                       /\ HasPrefix(evalResult.err, text)
    IN  pc = "done" =>
           /\ jsonOutput = JInvalid
                 => Error(<<"i", "n", "v", "a", "l", "i", "d", " ", "J", "S", "O", "N", " ", "r",
                            "e", "s", "p", "o", "n", "s", "e", ":", " ">>)
           /\ Is("unclosed")
                 => Error(<<"u", "n", "c", "l", "o", "s", "e", "d", " ", "a", "r", "r", "a", "y",
                            " ", "i", "n", "d", "e", "x", " ", "i", "n", " ", "p", "a", "t", "h",
                            ":", " ">>)
           /\ Is("notnumber")
                 => Error(<<"i", "n", "v", "a", "l", "i", "d", " ", "a", "r", "r", "a", "y", " ",
                            "i", "n", "d", "e", "x", " ", "'">>)
           /\ Is("notobject")
                 => Error(<<"e", "x", "p", "e", "c", "t", "e", "d", " ", "o", "b", "j", "e", "c",
                            "t", " ", "f", "o", "r", " ", "k", "e", "y", " ", "'", "k", "'", " ",
                            "b", "u", "t", " ", "g", "o", "t", " ">>)
           /\ Is("notarray")
                 => Error(<<"e", "x", "p", "e", "c", "t", "e", "d", " ", "a", "r", "r", "a", "y",
                            " ", "b", "u", "t", " ", "g", "o", "t", " ">>)
           /\ Is("bounds")
                 => Error(<<"a", "r", "r", "a", "y", " ", "i", "n", "d", "e", "x", " ", "o", "u",
                            "t", " ", "o", "f", " ", "b", "o", "u", "n", "d", "s", ":", " ">>)
           /\ Is("missing")
                 => evalResult = [ok |-> FALSE, val |-> <<>>,
                                  err |-> <<"k", "e", "y", " ", "'", "z", "z", "'", " ", "n", "o",
                                            "t", " ", "f", "o", "u", "n", "d">>]

\* permissions[2] in the document of the test, whose array has two
\* elements: the index is out of bounds.
C21_Witness ==
    /\ pc = "done"
    /\ jsonOutput = JsonDocs.Users
    /\ evalPath = <<"p", "e", "r", "m", "i", "s", "s", "i", "o", "n", "s", "[", "2", "]">>
    /\ evalResult = [ok |-> FALSE, val |-> <<>>,
                     err |-> <<"a", "r", "r", "a", "y", " ", "i", "n", "d", "e", "x", " ", "o", "u",
                               "t", " ", "o", "f", " ", "b", "o", "u", "n", "d", "s", ":", " ",
                               "2">>]

(***************************************************************************)
(* Substitute: what it replaces, what it scans, and the call made twice.   *)
(***************************************************************************)

\* The text s read once from left to right: a placeholder of a key of v
\* gives the value of the key, every other character gives itself, and the
\* values put in are not read again.
RECURSIVE ReplacedOnce(_, _)
ReplacedOnce(s, v) ==
    IF s = <<>>
    THEN <<>>
    ELSE IF \E key \in DOMAIN v : HasPrefix(s, Placeholder(key))
         THEN LET key == CHOOSE k \in DOMAIN v : HasPrefix(s, Placeholder(k))
              IN  v[key] \o ReplacedOnce(Drop(s, Len(Placeholder(key)) + 1), v)
         ELSE <<s[1]>> \o ReplacedOnce(Drop(s, 2), v)

\* C22: Substitute(s, v) is s with every occurrence of `{{name}}` replaced
\* by the value of name for the names of v, the placeholders of other names
\* left as they are, and s itself when v is empty.
C22_EveryPlaceholderReplaced ==
    pc \in {"once", "done"} => substOutput = {ReplacedOnce(substInput, variables)}

\* C23: substitution is not recursive: when the value of a key a holds the
\* placeholder of another key b and the text holds the placeholder of a,
\* the `{{b}}` that came with the value of a is still in the result.
C23_InsertedTextIsNotScanned ==
    pc \in {"once", "done"} =>
        \A a \in DOMAIN variables, b \in DOMAIN variables :
            (/\ a # b
             /\ Contains(variables[a], Placeholder(b))
             /\ Contains(substInput, Placeholder(a)))
            => \A r \in substOutput : Contains(r, Placeholder(b))

\* No brace in the text t.
BraceFree(t) == \A n \in 1..Len(t) : t[n] \notin {"{", "}"}

\* Every `{{` of the text s opens a placeholder `{{name}}` whose name has
\* no brace.
WellFormed(s) ==
    \A p \in 1..(Len(s) - 1) :
        (s[p] = "{" /\ s[p + 1] = "{")
        => \E q \in (p + 2)..(Len(s) - 1) :
              /\ s[q] = "}"
              /\ s[q + 1] = "}"
              /\ BraceFree(SubSeq(s, p + 2, q - 1))

C26_OtherKindsPass ==
    (pc = "done" /\ checkAssert.Type # <<"j", "s", "o", "n", "p", "a", "t", "h">>)
    => /\ checkResult.Pass = TRUE
       /\ checkResult.Err = <<>>
       /\ checkResult.Message =
             <<"W", "a", "r", "n", "i", "n", "g", ":", " ", "s", "k", "i", "p", "p", "i",
               "n", "g", " ", "u", "n", "k", "n", "o", "w", "n", " ", "a", "s", "s", "e",
               "r", "t", "i", "o", "n", " ", "t", "y", "p", "e", " ", "'">>
             \o checkAssert.Type \o <<"'">>

\* A `status` assertion with the operator `<` and a path with an unclosed
\* bracket, on a response that is not JSON, passes.
C26_Witness ==
    /\ pc = "done"
    /\ jsonOutput = JInvalid
    /\ checkAssert.Type = <<"s", "t", "a", "t", "u", "s">>
    /\ checkAssert.Operator = <<"<">>
    /\ checkAssert.Key = <<"u", "s", "e", "r", "s", "[", "0">>
    /\ checkResult.Pass = TRUE

\* C27: for a jsonpath assertion whose path evaluates to the text a, pass
\* is (a = expected) with ==, (a # expected) with !=, (expected occurs in
\* a) with contains; the message is `PASS: jsonpath "<path>" <operator>
\* "<expected>"` when pass is true and `FAIL: jsonpath "<path>" <operator>
\* "<expected>" (actual: "<a>")` when pass is false.
C27_OperatorsAndMessages ==
    pc = "done" =>
        LET r == EvaluateJSONPath(jsonOutput, checkAssert.Key)
            op == checkAssert.Operator
            expected == checkAssert.Value
            Occurs == \E n \in 1..(Len(r.val) + 1) :
                         /\ n + Len(expected) - 1 <= Len(r.val)
                         /\ \A k \in 1..Len(expected) : r.val[n + k - 1] = expected[k]
            rest == <<":", " ", "j", "s", "o", "n", "p", "a", "t", "h", " ", "\"">>
                    \o checkAssert.Key \o <<"\"", " ">> \o op \o <<" ", "\"">> \o expected
                    \o <<"\"">>
        IN  (/\ checkAssert.Type = <<"j", "s", "o", "n", "p", "a", "t", "h">>
             /\ r.ok
             /\ op \in {<<"=", "=">>, <<"!", "=">>, <<"c", "o", "n", "t", "a", "i", "n", "s">>})
            => /\ (op = <<"=", "=">>) => (checkResult.Pass <=> r.val = expected)
               /\ (op = <<"!", "=">>) => (checkResult.Pass <=> r.val # expected)
               /\ (op = <<"c", "o", "n", "t", "a", "i", "n", "s">>) => (checkResult.Pass <=> Occurs)
               /\ checkResult.Pass => checkResult.Message = <<"P", "A", "S", "S">> \o rest
               /\ ~checkResult.Pass
                  => checkResult.Message =
                        <<"F", "A", "I", "L">> \o rest
                        \o <<" ", "(", "a", "c", "t", "u", "a", "l", ":", " ", "\"">> \o r.val
                        \o <<"\"", ")">>

\* `$.user.id` != `101` on the response whose user.id is 101: the
\* assertion fails and the message shows the actual value.
C27_Witness ==
    /\ pc = "done"
    /\ jsonOutput = JsonDocs.Users
    /\ checkAssert.Type = JsonpathType
    /\ checkAssert.Operator = <<"!", "=">>
    /\ checkResult.Pass = FALSE
    /\ checkResult.Message =
          <<"F", "A", "I", "L", ":", " ", "j", "s", "o", "n", "p", "a", "t", "h", " ", "\"",
            "$", ".", "u", "s", "e", "r", ".", "i", "d", "\"", " ", "!", "=", " ", "\"", "1",
            "0", "1", "\"", " ", "(", "a", "c", "t", "u", "a", "l", ":", " ", "\"", "1", "0",
            "1", "\"", ")">>

(***************************************************************************)
(* The protocol of a record, and the assertions after one that failed.     *)
(***************************************************************************)

\* C28: every record a successful parse returns has a protocol that names
\* one of grpc, grpc-web and connect, and no record stops the run at its
\* protocol after an earlier record was dispatched.
C28_ProtocolIsEnumerated ==
    /\ \A k \in 1..Len(parsed) : ParseProtocol(parsed[k].Protocol)
    /\ ~(failure = "protocol" /\ calls # <<>>)

\* What the loop has reported of the assertions of record r, in the order
\* it reported them.
AssertsOf(r) == SelectSeq(output, LAMBDA e : e.index = r /\ e.what = "assert")

\* C29: the assertions of a record are evaluated in the order of the
\* document, the first, then the second, and so on, also after one of
\* them has failed: the turn of the loop after a failed assertion
\* evaluates the next assertion, and the run stops for failed assertions
\* only when every assertion of the record has been evaluated.
C29_EveryAssertionIsEvaluated ==
    /\ [](\A r \in 1..Len(parsed) :
             /\ Len(AssertsOf(r)) <= Len(parsed[r].Asserts)
             /\ \A k \in 1..Len(AssertsOf(r)) : AssertsOf(r)[k].name = k)
    /\ [](failure = "asserts" => Len(AssertsOf(i)) = Len(parsed[i].Asserts))
    /\ [][(/\ pc = "asserts"
           /\ ~allPassed
           /\ nextAssert <= Len(requests[i].Asserts))
          => /\ pc' = "asserts"
             /\ failure' = ""
             /\ nextAssert' = nextAssert + 1
             /\ Len(AssertsOf(i))' = Len(AssertsOf(i)) + 1]_vars

\* A record of two assertions whose first assertion failed: the second was
\* evaluated as well, and then the run stopped.
C29_Witness ==
    /\ failure = "asserts"
    /\ Len(parsed[i].Asserts) = 2
    /\ Len(AssertsOf(i)) = 2
    /\ ~AssertsOf(i)[1].ok
    /\ AssertsOf(i)[2].name = 2

(***************************************************************************)
(* The lines of the body.                                                  *)
(***************************************************************************)

\* C30: from the first line whose trimmed text begins with `{`, every line
\* read (a marker line apart) is appended as it is to the lines of the
\* body, the blank lines and the lines that begin with `#` as well, and
\* changes nothing else of the record: neither its name nor another field.
C30_BodyTakesEveryLine ==
    [][(pc = "content" /\ pc' = "content")
       => LET line == doc'[Len(doc')]
          IN  (/\ \/ content.currentSection = "Body"
                  \/ content.currentSection = "" /\ HasPrefix(TrimSpace(line), <<"{">>)
               /\ TrimSpace(line) \notin {Line.Captures, Line.Asserts})
              => /\ content'.bodyLines = Append(content.bodyLines, line)
                 /\ content'.req = content.req]_vars

(***************************************************************************)
(* The lines of the Asserts section that give no assertion.                *)
(***************************************************************************)

\* C31: a line of the Asserts section that is not blank gives no assertion,
\* and no error, exactly when it has no kind ended by a space, no quote
\* that opens the path after the kind, no quote that closes the path, or
\* no operator followed by a space; every other line, whatever stands
\* between the closing quote and the operator, gives one assertion more.
C31_DroppedOnlyWithoutShape ==
    [][(/\ pc = "content"
        /\ pc' = "content"
        /\ content.currentSection = "Asserts"
        /\ TrimSpace(doc'[Len(doc')]) # <<>>)
       => LET After(s, c) == TrimSpace(Drop(s, Index(s, c) + 1))
              \* o follows the closing quote of the path.
              HasOperator(o) == Contains(o, <<" ">>)
              \* p follows the opening quote of the path.
              HasPath(p) == Contains(p, <<"\"">>) /\ HasOperator(After(p, <<"\"">>))
              \* k follows the kind.
              HasQuote(k) == HasPrefix(k, <<"\"">>) /\ HasPath(Tail(k))
              HasShape(t) == Contains(t, <<" ">>) /\ HasQuote(After(t, <<" ">>))
          IN  /\ content'.err = NoError
              /\ IF HasShape(TrimSpace(doc'[Len(doc')]))
                 THEN Len(content'.req.Asserts) = Len(content.req.Asserts) + 1
                 ELSE content'.req.Asserts = content.req.Asserts]_vars

(***************************************************************************)
(* The text of the value a path leads to.                                  *)
(***************************************************************************)

\* C32: the text EvaluateJSONPath returns for a boolean is `true` or
\* `false`, for a string its characters without quotes, and for a number
\* that is a natural number n the decimal digits of n, however large.
C32_NumbersAsDecimalDigits ==
    (pc = "done" /\ evalResult # NoResult /\ evalResult.ok) =>
        LET reached == Follow(jsonOutput, evalSteps)
        IN  /\ reached.t = "bool"
               => evalResult.val = IF reached.v THEN <<"t", "r", "u", "e">>
                                   ELSE <<"f", "a", "l", "s", "e">>
            /\ reached.t = "str" => evalResult.val = reached.v
            /\ reached.t = "num" => evalResult.val = Itoa(reached.v)

(***************************************************************************)
(* The order of the captures.                                              *)
(***************************************************************************)

\* C33: the captures of a record are evaluated in the order of their lines
\* in the document: every record of the documents that captures x and y
\* has the line of x before the line of y, so the loop never reports y
\* before x for one record.
C33_CapturesInDocumentOrder ==
    \A j \in 1..Len(output), k \in 1..Len(output) :
        (/\ j < k
         /\ output[j].what = "capture"
         /\ output[k].what = "capture"
         /\ output[j].index = output[k].index)
        => ~(output[j].name = <<"y">> /\ output[k].name = <<"x">>)

(***************************************************************************)
(* Substitute and the order of the keys.                                   *)
(***************************************************************************)

\* C34: Substitute returns the same text for a text and a store whatever
\* the order in which it takes the keys of the store.
C34_SameResultForEveryOrder ==
    pc \in {"once", "done"} => Cardinality(substOutput) = 1

(***************************************************************************)
(* The whole file is parsed before the first record is sent.               *)
(***************************************************************************)

\* The sections of the file, as the scanner loop of ParseMultiple cuts them.
SectionsOf(lines) == scanEnd(scanLines([sections |-> <<>>, currentSection |-> <<>>], lines))

\* C35: the transport is called only when every section of the file has
\* parsed without error: the step that parses the file either gives one
\* record for each section, or ends the run with an error; when a section
\* fails, the last one as well, it is the error of the parse; and a run
\* that has not begun the records, or has ended so, has sent nothing, the
\* valid records before the failing section included.
C35_NoDispatchBeforeWholeParse ==
    /\ [][pc = "start"
          => LET Parses(section) == parseContent(section).err = NoError
                 AllParse(secs) == \A k \in 1..Len(secs) : Parses(secs[k])
                 Parsed(secs) ==
                    IF secs # <<>> /\ AllParse(secs)
                    THEN \/ pc' = "substitute" /\ Len(requests') = Len(secs)
                         \/ pc' = "done" /\ failure' = "protos"
                    ELSE pc' = "done" /\ outcome' = "error" /\ failure' = "parse"
             IN  Parsed(SectionsOf(doc))]_vars
    /\ []((pc = "start" \/ failure \in {"parse", "protos"})
             => (calls = <<>> /\ inflight = 0 /\ output = <<>> /\ requests = <<>>))
    /\ []((calls # <<>> \/ inflight > 0) => requests # <<>>)

\* A valid record, then a section without a Method line: the run has ended
\* with the error of the parse and nothing was sent.
C35_Witness ==
    /\ doc = JoinSegments(<<Seg.Capture, Seg.NoMethod>>)
    /\ pc = "done"
    /\ failure = "parse"
    /\ calls = <<>>
    /\ output = <<>>

(***************************************************************************)
(* After a marker the section stays Captures or Asserts.                   *)
(***************************************************************************)

\* C36: once [Captures] or [Asserts] has been read, every line read leaves
\* the section at Captures or Asserts: a marker sets it to its own
\* section, every other line leaves it as it is and can only add a capture
\* or an assertion (a comment, the name); the address, the service, the
\* method, the protocol, the timeout, the headers and the lines of the body
\* stay as they were, and no line sets an error.
C36_NoReturnAfterMarker ==
    [][(/\ pc = "content"
        /\ pc' = "content"
        /\ content.currentSection \in {"Captures", "Asserts"})
       => LET trimmed == TrimSpace(doc'[Len(doc')])
          IN  /\ content'.currentSection =
                    IF trimmed = Line.Captures THEN "Captures"
                    ELSE IF trimmed = Line.Asserts THEN "Asserts"
                    ELSE content.currentSection
              /\ content'.bodyLines = content.bodyLines
              /\ content'.err = NoError
              /\ content'.req.Address = content.req.Address
              /\ content'.req.Service = content.req.Service
              /\ content'.req.Method = content.req.Method
              /\ content'.req.Protocol = content.req.Protocol
              /\ content'.req.Timeout = content.req.Timeout
              /\ content'.req.Headers = content.req.Headers
              /\ content.currentSection = "Captures"
                 => content'.req.Asserts = content.req.Asserts
              /\ content.currentSection = "Asserts"
                 => content'.req.Captures = content.req.Captures]_vars

\* `Protocol: connect` and `{` after [Captures]: the protocol and the body
\* of the record are the defaults, and the first line is a capture.
C36_Witness ==
    /\ pc = "done"
    /\ err = NoError
    /\ doc = <<Line.Address, Line.Service, Line.Method, Line.Captures, Line.Protocol, Line.Brace>>
    /\ requests[1].Protocol = <<"g", "r", "p", "c", "-", "w", "e", "b">>
    /\ requests[1].Body = <<"{", "}">>
    /\ DOMAIN requests[1].Headers = {}
    /\ requests[1].Captures =
          (<<"P", "r", "o", "t", "o", "c", "o", "l">> :> <<"c", "o", "n", "n", "e", "c", "t">>)

(***************************************************************************)
(* Placeholders of variables the store does not hold.                      *)
(***************************************************************************)

\* C37: a placeholder of a variable that was not captured does not stop the
\* run: the rewriting of a record always goes on to the resolution of its
\* method, without error, and leaves the placeholder as it is in the
\* address, the body and the header values, and the call that follows hands
\* the transport the address, the body and the header values with the
\* placeholder in them.
C37_UnresolvedPlaceholderIsSent ==
    [][LET Unresolved == {<<"x">>, <<"y">>, <<"z">>} \ DOMAIN variables
           \* Every placeholder of an unresolved name in the text before
           \* is in the text after.
           Kept(before, after) ==
              \A n \in Unresolved :
                 Contains(before, Placeholder(n)) => Contains(after, Placeholder(n))
           Sent(call) ==
              /\ Kept(parsed[i].Address, call.address \o call.prefix)
              /\ Kept(parsed[i].Body, call.body)
              /\ \A k \in DOMAIN parsed[i].Headers :
                    Kept(parsed[i].Headers[k], call.headers[k])
       IN  /\ pc = "substitute"
              => /\ pc' = "resolve"
                 /\ outcome' = "running"
                 /\ failure' = ""
                 /\ Kept(requests[i].Address, requests'[i].Address)
                 /\ Kept(requests[i].Body, requests'[i].Body)
                 /\ \A k \in DOMAIN requests[i].Headers :
                       Kept(requests[i].Headers[k], requests'[i].Headers[k])
           /\ pc = "call"
              => /\ Len(calls') = Len(calls) + 1
                 /\ Sent(calls'[Len(calls')])]_vars

\* The capture of y failed for record 1; record 2 is sent with the body
\* `{{y}}` as it was written.
C37_Witness ==
    /\ Len(calls) = 2
    /\ \E k \in 1..Len(output) :
          output[k] = [index |-> 1, what |-> "capture", name |-> <<"y">>, ok |-> FALSE]
    /\ <<"y">> \notin DOMAIN variables
    /\ parsed[2].Body = <<"{", "{", "y", "}", "}">>
    /\ calls[2].body = <<"{", "{", "y", "}", "}">>
    /\ failure = ""

(***************************************************************************)
(* The root selector inside a path.                                        *)
(***************************************************************************)

\* The path of the steps st written without any root selector, after the
\* text acc.
RECURSIVE PlainPath(_, _)
PlainPath(acc, st) ==
    IF st = <<>> THEN acc
    ELSE PlainPath(IF Head(st).kind = "index"
                   THEN acc \o <<"[">> \o Itoa(Head(st).index) \o <<"]">>
                   ELSE acc \o (IF acc = <<>> THEN <<>> ELSE <<".">>) \o Head(st).key,
                   Tail(st))

\* The root selector is stripped at every level: a path whose steps are
\* written with `$.` or `$` in front of a key, at the start or after
\* another step, leads to that key, the text `$x` leads to the key `x`,
\* and when no key begins with `$` the result is that of the path written
\* without any selector.
RootStrippedAtEveryLevel ==
    (pc = "done" /\ evalResult # NoResult) =>
        /\ evalResult = [ok |-> TRUE, val |-> Sprint(Follow(jsonOutput, evalSteps)),
                         err |-> <<>>]
        /\ (\A n \in 1..Len(evalSteps) :
               evalSteps[n].kind = "key" => PlainKey(evalSteps[n].key))
           => evalResult = EvaluateJSONPath(jsonOutput, PlainPath(<<>>, evalSteps))

\* The texts the document Dollar holds under the keys `$b`, `$k` and `$`
\* and nowhere else.
UnderDollarKeys ==
    {<<"D">>, <<"K">>, <<"G">>, <<"E">>, <<"m", "a", "p", "[", "b", ":", "E", "]">>}

\* C38, as stated: the root selector is stripped at every level of the
\* recursion, and so no path reaches a key that begins with `$`.
C38_DollarKeyIsNeverReached ==
    /\ RootStrippedAtEveryLevel
    /\ (pc = "done" /\ jsonOutput = JsonDocs.Dollar /\ evalResult.ok)
       => evalResult.val \notin UnderDollarKeys

\* C38: the root selector is stripped at every level of the recursion
\* (`a.$.b` evaluates like `a.b`, `a.$b` looks up `b` under `a`), once at
\* each level: a key that begins with `$` is not reached by its own text,
\* which leads to the key without the `$`, but it is reached when a
\* selector stands in front of it (`$.$k`, `$$k`, `a.$.$b`).
C38_RootStrippedOncePerLevel ==
    /\ RootStrippedAtEveryLevel
    /\ (/\ pc = "done"
        /\ evalResult # NoResult
        /\ jsonOutput = JsonDocs.Dollar
        /\ evalResult.val \in UnderDollarKeys)
       => \E n \in 1..Len(evalSteps) :
             /\ evalSteps[n].kind = "key"
             /\ evalSteps[n].key[1] = "$"
             /\ evalPath # PlainPath(<<>>, evalSteps)

\* `a.$.b` in the document Dollar: the text under a.b, not the one under
\* the key `$` of a.
C38_Witness ==
    /\ pc = "done"
    /\ jsonOutput = JsonDocs.Dollar
    /\ evalPath = <<"a", ".", "$", ".", "b">>
    /\ evalResult = [ok |-> TRUE, val |-> <<"B">>, err |-> <<>>]

=============================================================================
